---- MODULE Spec2Model ----
(***************************************************************************)
(* wraprun: libsplit (src/src/split.c), the interposition library that     *)
(* splits MPI_COMM_WORLD by the color of a per-rank configuration line.    *)
(*                                                                         *)
(* One operating-system process per rank.  A process shares nothing with   *)
(* the others but the MPI runtime and the read-only configuration file, so *)
(* the code of one process between two blocking MPI calls is one action.   *)
(* C strings are sequences of one-character strings.                       *)
(***************************************************************************)
EXTENDS Integers, Sequences, FiniteSets, TLC

(***************************************************************************)
(* Bounds of the model.                                                    *)
(***************************************************************************)
\* Largest world the job launcher starts (ranks 0 .. NumRanks-1).
NumRanks == 4
\* Barriers the application of one rank issues between init and finalize.
MaxBarriers == 1
\* Segmentation faults raised in one run.
MaxFaults == 1

(***************************************************************************)
(* C strings and the scanf family                                          *)
(***************************************************************************)
IsSpace(c) == c \in {" ", "\t", "\n"}

IsDigit(c) == c \in {"0", "1", "2", "3", "4", "5", "6", "7", "8", "9"}

DigitVal(c) ==
  CASE c = "0" -> 0 [] c = "1" -> 1 [] c = "2" -> 2 [] c = "3" -> 3
    [] c = "4" -> 4 [] c = "5" -> 5 [] c = "6" -> 6 [] c = "7" -> 7
    [] c = "8" -> 8 [] c = "9" -> 9

\* First index at or after i that holds no white space (Len(s)+1 at the end).
RECURSIVE SkipSpace(_, _)
SkipSpace(s, i) ==
  IF i <= Len(s) /\ IsSpace(s[i]) THEN SkipSpace(s, i + 1) ELSE i

\* First index at or after i that ends a run of non-white-space characters.
RECURSIVE WordEnd(_, _)
WordEnd(s, i) ==
  IF i <= Len(s) /\ ~IsSpace(s[i]) THEN WordEnd(s, i + 1) ELSE i

\* First index at or after i that ends a run of decimal digits.
RECURSIVE DigitsEnd(_, _)
DigitsEnd(s, i) ==
  IF i <= Len(s) /\ IsDigit(s[i]) THEN DigitsEnd(s, i + 1) ELSE i

\* Value of a run of decimal digits.
RECURSIVE DecimalValue(_)
DecimalValue(s) ==
  IF s = <<>> THEN 0
  ELSE 10 * DecimalValue(SubSeq(s, 1, Len(s) - 1)) + DigitVal(s[Len(s)])

\* The %d directive at index i: "eof" (input ends before a conversion),
\* "fail" (matching failure) or "ok" with the value and the next index.
ScanInt(s, i) ==
  LET j == SkipSpace(s, i) IN
  IF j > Len(s) THEN [r |-> "eof", val |-> 0, next |-> j]
  ELSE LET k == IF s[j] \in {"+", "-"} THEN j + 1 ELSE j
           e == DigitsEnd(s, k)
           v == DecimalValue(SubSeq(s, k, e - 1))
       IN IF e = k THEN [r |-> "fail", val |-> 0, next |-> j]
          ELSE [r |-> "ok", val |-> IF s[j] = "-" THEN 0 - v ELSE v, next |-> e]

\* The %s directive at index i.
ScanStr(s, i) ==
  LET j == SkipSpace(s, i) IN
  IF j > Len(s) THEN [r |-> "eof", val |-> <<>>, next |-> j]
  ELSE [r |-> "ok", val |-> SubSeq(s, j, WordEnd(s, j) - 1), next |-> WordEnd(s, j)]

\* Return value of scanf when the input ends: EOF before the first
\* conversion, the number of conversions otherwise.
EOF == -1

\* sscanf(line, "%d %s %s", &color, work_dir, env_vars).  A directive that is
\* not reached leaves its target as it was: `color` is what the caller's int
\* held before the call, the two buffers are calloc'ed and hold "".
SscanfLine(line, color) ==
  LET d == ScanInt(line, 1) IN
  IF d.r = "eof" THEN [n |-> EOF, color |-> color, work_dir |-> <<>>, env_vars |-> <<>>]
  ELSE IF d.r = "fail" THEN [n |-> 0, color |-> color, work_dir |-> <<>>, env_vars |-> <<>>]
  ELSE LET w == ScanStr(line, d.next) IN
       IF w.r = "eof" THEN [n |-> 1, color |-> d.val, work_dir |-> <<>>, env_vars |-> <<>>]
       ELSE LET e == ScanStr(line, w.next) IN
            IF e.r = "eof"
            THEN [n |-> 2, color |-> d.val, work_dir |-> w.val, env_vars |-> <<>>]
            ELSE [n |-> 3, color |-> d.val, work_dir |-> w.val, env_vars |-> e.val]

\* sscanf(token, "%s=%s", key, value): %s takes the whole run of
\* non-white-space characters, then the literal '=' has to match what follows.
SscanfKeyValue(token) ==
  LET k == ScanStr(token, 1) IN
  IF k.r = "eof" THEN [n |-> EOF, key |-> <<>>, value |-> <<>>]
  ELSE IF k.next > Len(token) \/ token[k.next] # "="
       THEN [n |-> 1, key |-> k.val, value |-> <<>>]
       ELSE LET v == ScanStr(token, k.next + 1) IN
            IF v.r = "eof" THEN [n |-> 1, key |-> k.val, value |-> <<>>]
            ELSE [n |-> 2, key |-> k.val, value |-> v.val]

\* Index of the first occurrence of character c at or after i (Len(s)+1 if none).
RECURSIVE IndexOf(_, _, _)
IndexOf(s, c, i) ==
  IF i <= Len(s) /\ s[i] # c THEN IndexOf(s, c, i + 1) ELSE i

\* The tokens strsep(&s, ";") returns one after the other: every piece
\* between two delimiters, the empty ones included.
RECURSIVE Strsep(_)
Strsep(s) ==
  LET p == IndexOf(s, ";", 1) IN
  IF p > Len(s) THEN <<s>>
  ELSE <<SubSeq(s, 1, p - 1)>> \o Strsep(SubSeq(s, p + 1, Len(s)))

\* atoi(s): the leading integer of s, 0 when there is none.
Atoi(s) == LET d == ScanInt(s, 1) IN IF d.r = "ok" THEN d.val ELSE 0

(***************************************************************************)
(* Names of the environment variables the library consults                 *)
(***************************************************************************)
WRAPRUN_FILE ==
  <<"W", "R", "A", "P", "R", "U", "N", "_", "F", "I", "L", "E">>

LD_PRELOAD ==
  <<"L", "D", "_", "P", "R", "E", "L", "O", "A", "D">>

PBS_JOBID ==
  <<"P", "B", "S", "_", "J", "O", "B", "I", "D">>

W_UNSET_PRELOAD ==
  <<"W", "_", "U", "N", "S", "E", "T", "_", "P", "R", "E", "L", "O", "A", "D">>

W_RANK_FROM_ENV ==
  <<"W", "_", "R", "A", "N", "K", "_", "F", "R", "O", "M", "_", "E", "N", "V">>

W_ENV_RANK ==
  <<"W", "_", "E", "N", "V", "_", "R", "A", "N", "K">>

W_IGNORE_SEGV ==
  <<"W", "_", "I", "G", "N", "O", "R", "E", "_", "S", "E", "G", "V">>

W_IGNORE_ABRT ==
  <<"W", "_", "I", "G", "N", "O", "R", "E", "_", "A", "B", "R", "T">>

W_SIG_PAUSE ==
  <<"W", "_", "S", "I", "G", "_", "P", "A", "U", "S", "E">>

W_SIG_DFL ==
  <<"W", "_", "S", "I", "G", "_", "D", "F", "L">>

W_IGNORE_RETURN_CODE ==
  <<"W", "_", "I", "G", "N", "O", "R", "E", "_", "R", "E", "T", "U", "R", "N", "_", "C", "O", "D", "E">>

W_REDIRECT_OUTERR ==
  <<"W", "_", "R", "E", "D", "I", "R", "E", "C", "T", "_", "O", "U", "T", "E", "R", "R">>

W_UNWRAP_INIT ==
  <<"W", "_", "U", "N", "W", "R", "A", "P", "_", "I", "N", "I", "T">>

W_UNWRAP_FINALIZE ==
  <<"W", "_", "U", "N", "W", "R", "A", "P", "_", "F", "I", "N", "A", "L", "I", "Z", "E">>

(***************************************************************************)
(* Handles, statuses and other values of mpi.h, stdlib.h and signal.h      *)
(***************************************************************************)
MPI_COMM_NULL == 0

MPI_COMM_WORLD == 1

MPI_COMM_SELF == 2

\* Handle the runtime gives the communicator of partition `color` of a split
\* of the world: FirstSplitComm + color.
FirstSplitComm == 3

MPI_SUCCESS == 0

MPI_ERR_COMM == 5

MPI_ERR_ARG == 12

\* The color that asks the split for no communicator at all.
MPI_UNDEFINED == -32766

EXIT_SUCCESS == 0

EXIT_FAILURE == 1

SIGSEGV == 11

SIGABRT == 6

(***************************************************************************)
(* The process environment: a set of <<name, value>> pairs, one per name.  *)
(***************************************************************************)
HasEnv(env, name) == \E e \in env : e[1] = name

\* getenv(name), for a name that is set.
Getenv(env, name) == (CHOOSE e \in env : e[1] = name)[2]

\* setenv(name, value, 1) fails with EINVAL for an empty name or one with '='.
SetenvFails(name) == name = <<>> \/ \E i \in 1 .. Len(name) : name[i] = "="

Setenv(env, name, value) == {e \in env : e[1] # name} \cup {<<name, value>>}

\* An unsetenv that removes nothing.
Unsetenv_Nothing(env, name) == env

Unsetenv(env, name) == {e \in env : e[1] # name}

(***************************************************************************)
(* The file system the job runs on                                         *)
(***************************************************************************)
Dir_a == <<"/", "a">>

Dir_b == <<"/", "b">>

\* A directory that exists and cannot be written to.
Dir_r == <<"/", "r">>

\* The directory the job launcher starts every process in.
Dir_l == <<"/", "l">>

\* A directory in which the .err file of the job exists and cannot be opened
\* for appending, while the .out file can.
Dir_e == <<"/", "e">>

\* A directory that does not exist.
Dir_x == <<"/", "x">>

ExistingDirs == {Dir_a, Dir_b, Dir_r, Dir_l, Dir_e}

ReadOnlyDirs == {Dir_r}

ErrLockedDirs == {Dir_e}

LaunchDir == Dir_l

\* Value of WRAPRUN_FILE when it names the configuration file.
ConfigPath == <<"/", "a", "/", "c">>

Tty == [kind |-> "tty", dir |-> <<>>, job |-> <<>>, color |-> 0, ext |-> ""]

Closed == [kind |-> "closed", dir |-> <<>>, job |-> <<>>, color |-> 0, ext |-> ""]

(***************************************************************************)
(* State                                                                   *)
(***************************************************************************)
VARIABLES
  world,   \* the ranks the job launcher started: 0 .. n-1
  file,    \* the configuration file: whether it exists, and its lines
  proc,    \* per rank, the state of its process (see NewProcess)
  faults,  \* segmentation faults raised so far
  app,     \* the application: the barriers every rank issues between init
           \* and finalize, the same for all ranks as in testing/helloMPI.c
  call,    \* the call to a shadowed entry point whose result the
           \* application is looking at, NoCall when there is none
  wrapper  \* the wrapper programs that start the application: the
           \* instances of intra_wrapper.c on a node or of serial_wrapper.c,
           \* NoWrapper when the job launcher starts the application itself

vars == <<world, file, proc, faults, app, call, wrapper>>

Ranks == 0 .. NumRanks - 1

NotTerminated == [kind |-> "none", code |-> 0]

\* A process as the job launcher starts it, before main() runs.
\*   pc             where the process is: "start" (before MPI_Init), "in_split"
\*                  (blocked in PMPI_Comm_split), "running" (application code
\*                  after init), "in_barrier", "in_finalize" (blocked in
\*                  PMPI_Finalize), "finalized" (application code after
\*                  finalize), "paused" (in pause()), "done" (terminated)
\*   term           how it terminated: exit code, killing signal, or aborted
\*   inited         MPI_Init has returned to the application
\*   log            the calls the library has made, in the order it made them
\*   initPreload    LD_PRELOAD was in the environment when the real init ran
\*   lineRead       the index SplitInit passed to GetRankParamsFromFile
\*   exitArg        the code of the last call of exit(), -1 before any
\*   initReals      what the real init returned, call by call
\*   initRets       what the shadowed init returned to its caller, call by call
\*   finalizeReals  what the underlying finalize returned, call by call
\*   finalizeRets   what the shadowed finalize returned to its caller
\*   color, work_dir, env_vars   the locals of SplitInit
\*   cont           who called the MPI_Finalize the process is blocked in
\*   blocked        the signals whose handler is running: signal() of glibc
\*                  under _GNU_SOURCE keeps a signal blocked while its handler
\*                  runs
\*   pending        the blocked signals that were sent to the process
NewProcess(env) ==
  [pc |-> "start", term |-> NotTerminated, abortedBy |-> -1,
   environ |-> env, cwd |-> LaunchDir, stdout |-> Tty, stderr |-> Tty,
   stderrLog |-> <<>>, sigsegv |-> "SIG_DFL", sigabrt |-> "SIG_DFL",
   atexit |-> <<>>, MPI_COMM_SPLIT |-> MPI_COMM_NULL,
   initVia |-> "", inited |-> FALSE, finalizeVia |-> "", mpiFinalized |-> FALSE,
   splitEntered |-> FALSE, splitKey |-> 0,
   color |-> 0, work_dir |-> <<>>, env_vars |-> <<>>,
   cont |-> "", nbar |-> 0, barrierComm |-> MPI_COMM_NULL, segv |-> FALSE,
   abrt |-> FALSE, log |-> <<>>, initEntry |-> "", initPreload |-> FALSE,
   initReals |-> <<>>,
   initRets |-> <<>>, finalizeReals |-> <<>>, finalizeRets |-> <<>>,
   lineRead |-> -1, exitArg |-> -1, blocked |-> {}, pending |-> {}]

(***************************************************************************)
(* Process termination: _exit, death by signal, exit and the exit hook     *)
(***************************************************************************)
\* The exit status a parent observes: the low 8 bits of the code passed to
\* exit or _exit or returned from main.
ExitStatus(code) == code % 256

\* _exit(code): the process ends at once with this status.
ExitNow(p, code) ==
  [p EXCEPT !.pc = "done", !.term = [kind |-> "exit", code |-> ExitStatus(code)]]

\* Default disposition of a fatal signal.
KilledBy(p, sig) ==
  [p EXCEPT !.pc = "done", !.term = [kind |-> "signal", code |-> sig]]

\* fprintf(stderr, ...): the message reaches what stderr is open on; on a
\* stream that fclose or a failed freopen has closed the write fails and
\* nothing is written.
Fprintf(p, msg) ==
  IF p.stderr = Closed THEN p ELSE [p EXCEPT !.stderrLog = Append(@, msg)]

\* The library makes the call `what`.
Log(p, what) == [p EXCEPT !.log = Append(@, what)]

RECURSIVE Exit(_, _)

\* EXIT_PRINT(msg): diagnostic on stderr, then exit(EXIT_FAILURE).
EXIT_PRINT(p, msg) == Exit(Fprintf(p, msg), EXIT_FAILURE)

\* fclose(stdout); fclose(stderr)
CloseStdOutErr(p) == [p EXCEPT !.stdout = Closed, !.stderr = Closed]

\* PMPI_Comm_free(&comm): the status, and the handle left in comm.
PMPI_Comm_free(comm) ==
  IF comm >= FirstSplitComm
  THEN [status |-> MPI_SUCCESS, comm |-> MPI_COMM_NULL]
  ELSE [status |-> MPI_ERR_COMM, comm |-> comm]

\* Where MPI_Finalize returns to.
FinalizeReturnsTo(p, caller) ==
  CASE caller = "main" -> [p EXCEPT !.pc = "finalized", !.cont = ""]
    [] caller = "SegvHandler" -> ExitNow([p EXCEPT !.cont = ""], EXIT_SUCCESS)
    [] caller = "AbrtHandler" -> ExitNow([p EXCEPT !.cont = ""], EXIT_SUCCESS)
    [] caller = "ExitHandler" -> ExitNow([p EXCEPT !.cont = ""], EXIT_SUCCESS)

\* A finalize that returns MPI_SUCCESS whatever the underlying one returned.
FinalizeTail_ReturnsSuccess(p, caller, return_value) ==
  LET q == IF HasEnv(p.environ, W_REDIRECT_OUTERR)
           THEN Log(CloseStdOutErr(p), "fclose") ELSE p
  IN FinalizeReturnsTo([q EXCEPT !.finalizeRets = Append(@, MPI_SUCCESS)], caller)

\* MPI_Finalize after the underlying finalize: close the redirected streams
\* and return return_value.
FinalizeTail(p, caller, return_value) ==
  LET q == IF HasEnv(p.environ, W_REDIRECT_OUTERR)
           THEN Log(CloseStdOutErr(p), "fclose") ELSE p
  IN FinalizeReturnsTo([q EXCEPT !.finalizeRets = Append(@, return_value)], caller)

\* The symbol through which the shadowed finalize reaches the underlying one.
FinalizeSymbol(p) ==
  IF HasEnv(p.environ, W_UNWRAP_FINALIZE) THEN "RTLD_NEXT MPI_Finalize"
  ELSE "PMPI_Finalize"

\* A finalize that leaves the split communicator alone.
MPI_Finalize_KeepsSplit(p, caller) ==
  IF ~p.mpiFinalized
  THEN [Log(p, FinalizeSymbol(p)) EXCEPT !.pc = "in_finalize", !.cont = caller,
                                         !.finalizeVia = FinalizeSymbol(p)]
  ELSE FinalizeTail(p, caller, 0)

\* The shadowed MPI_Finalize, up to the point where the underlying finalize
\* blocks (it is collective), or to its end when the runtime is finalized.
MPI_Finalize(p, caller) ==
  LET free == PMPI_Comm_free(p.MPI_COMM_SPLIT) IN
  IF p.MPI_COMM_SPLIT # MPI_COMM_NULL /\ free.status # MPI_SUCCESS
  THEN EXIT_PRINT(p, "Failed to free split communicator")
  ELSE LET q == IF p.MPI_COMM_SPLIT # MPI_COMM_NULL
                THEN [Log(p, "PMPI_Comm_free") EXCEPT !.MPI_COMM_SPLIT = free.comm]
                ELSE p
       IN IF ~q.mpiFinalized
          THEN [Log(q, FinalizeSymbol(q)) EXCEPT
                  !.pc = "in_finalize", !.cont = caller,
                  !.finalizeVia = FinalizeSymbol(q)]
          ELSE FinalizeTail(q, caller, 0)

\* The underlying finalize returns `status` into MPI_Finalize, which runs on.
PMPI_Finalize_return(p, status) ==
  FinalizeTail([p EXCEPT !.mpiFinalized = TRUE,
                         !.finalizeReals = Append(@, status)], p.cont, status)

\* An exit hook that ends the process without finalizing.
ExitHandler_NoFinalize(p) == ExitNow(p, EXIT_SUCCESS)

\* The exit hook: finalize if the runtime is not finalized, then _exit(0).
ExitHandler(p) ==
  IF ~p.mpiFinalized THEN MPI_Finalize(p, "ExitHandler")
  ELSE ExitNow(p, EXIT_SUCCESS)

\* exit(code): run the registered exit hook, else end with the code.
Exit(p, code) ==
  IF p.atexit # <<>>
  THEN ExitHandler([p EXCEPT !.atexit = Tail(@), !.exitArg = code])
  ELSE ExitNow([p EXCEPT !.exitArg = code], code)

(***************************************************************************)
(* Signal handlers                                                         *)
(***************************************************************************)
SegvHandler(p) ==
  LET p1 == Fprintf(p, "ERROR: Signal SEGV Received")
      p2 == IF HasEnv(p1.environ, W_SIG_DFL)
            THEN [p1 EXCEPT !.sigsegv = "SIG_DFL"] ELSE p1
  IN MPI_Finalize(p2, "SegvHandler")

SegvHandlerPause(p) ==
  [Fprintf(p, "ERROR: Signal SEGV Received") EXCEPT !.pc = "paused"]

\* AbrtHandler: as SegvHandler, and exit(EXIT_SUCCESS) in place of _exit.
AbrtHandler(p) ==
  LET p1 == Fprintf(p, "ERROR: Signal SIGABRT Received")
      p2 == IF HasEnv(p1.environ, W_SIG_DFL)
            THEN [p1 EXCEPT !.sigsegv = "SIG_DFL"] ELSE p1
  IN MPI_Finalize(p2, "AbrtHandler")

AbrtHandlerPause(p) ==
  [Fprintf(p, "ERROR: Signal Abrt Received") EXCEPT !.pc = "paused"]

\* Delivery of SIGABRT under the current disposition.
DeliverAbrt(p) ==
  CASE p.sigabrt = "SIG_DFL" -> KilledBy(p, SIGABRT)
    [] p.sigabrt = "AbrtHandler" -> AbrtHandler(p)
    [] p.sigabrt = "AbrtHandlerPause" -> AbrtHandlerPause(p)

\* Delivery of SIGSEGV under the current disposition.
DeliverSegv(p) ==
  CASE p.sigsegv = "SIG_DFL" -> KilledBy(p, SIGSEGV)
    [] p.sigsegv = "SegvHandler" -> SegvHandler(p)
    [] p.sigsegv = "SegvHandlerPause" -> SegvHandlerPause(p)

(***************************************************************************)
(* The MPI runtime, as far as the library uses it                          *)
(***************************************************************************)
\* PMPI_Comm_split(MPI_COMM_WORLD, color, key, &newcomm) checks its arguments
\* before it communicates: a negative color other than MPI_UNDEFINED is an error.
PMPI_Comm_split_status(color) ==
  IF color < 0 /\ color # MPI_UNDEFINED THEN MPI_ERR_ARG ELSE MPI_SUCCESS

\* The handle the split leaves in newcomm.
PMPI_Comm_split_newcomm(color) ==
  IF color = MPI_UNDEFINED THEN MPI_COMM_NULL ELSE FirstSplitComm + color

\* The split is collective over the world: it returns once every rank of the
\* world has entered it.
SplitComplete == \A q \in world : proc[q].splitEntered

\* The member of S that comes first in a group: least key, then least world rank.
FirstOf(S) ==
  CHOOSE q \in S : \A o \in S :
    proc[q].splitKey < proc[o].splitKey
      \/ (proc[q].splitKey = proc[o].splitKey /\ q <= o)

RECURSIVE Ordered(_)
Ordered(S) ==
  IF S = {} THEN <<>> ELSE <<FirstOf(S)>> \o Ordered(S \ {FirstOf(S)})

RECURSIVE Ascending(_)
Ascending(S) ==
  IF S = {} THEN <<>>
  ELSE LET m == CHOOSE q \in S : \A o \in S : q <= o
       IN <<m>> \o Ascending(S \ {m})

\* The members of a communicator: of a split communicator, the ranks that
\* entered the split with its color.
Members(comm) ==
  IF comm = MPI_COMM_WORLD THEN world
  ELSE IF comm >= FirstSplitComm
       THEN {q \in world : proc[q].splitEntered
                            /\ proc[q].color = comm - FirstSplitComm}
       ELSE {}

\* The group of a communicator: its members, in the order of their ranks in it.
Group(comm) ==
  IF comm = MPI_COMM_WORLD THEN Ascending(world) ELSE Ordered(Members(comm))

\* PMPI_Comm_size(comm, &size)
PMPI_Comm_size(comm) == Len(Group(comm))

\* PMPI_Comm_rank(comm, &rank), called by world rank r, a member of comm.
PMPI_Comm_rank(comm, r) ==
  LET g == Group(comm) IN (CHOOSE i \in 1 .. Len(g) : g[i] = r) - 1

\* A rank has entered its k-th barrier.
EnteredBarrier(q, k) == proc[q].nbar >= k

\* PMPI_Barrier(comm) returns to r once every member of comm has entered it.
BarrierComplete(r) ==
  \A q \in Members(proc[r].barrierComm) : EnteredBarrier(q, proc[r].nbar)

\* A rank has entered the underlying finalize.
EnteredFinalize(q) == proc[q].pc = "in_finalize" \/ proc[q].mpiFinalized

\* The underlying finalize is collective over the world: it returns once
\* every rank of the world has entered it.
FinalizeComplete == \A q \in world : EnteredFinalize(q)

(***************************************************************************)
(* Init: the configuration reader and the process shaper                   *)
(***************************************************************************)
\* GetRankParamsFromFile(rank, &color, work_dir, env_vars): the message of the
\* EXIT_PRINT it ends in ("" if none), "SIGSEGV" where it reads through a null
\* line, and what it leaves in its three results.
GetRankParamsFromFile(rank, color, env, f) ==
  LET none == [err |-> "", color |-> color, work_dir |-> <<>>, env_vars |-> <<>>] IN
  IF ~HasEnv(env, WRAPRUN_FILE)
  THEN [none EXCEPT !.err = "WRAPRUN_FILE environment variable not set, exiting!"]
  ELSE IF ~(f.exists /\ Getenv(env, WRAPRUN_FILE) = ConfigPath)
  THEN [none EXCEPT !.err = "Can't open file"]
  ELSE IF rank >= Len(f.lines)
  THEN [none EXCEPT !.err = "Error reading rank info"]
  ELSE IF rank < 0
  THEN [none EXCEPT !.err = "SIGSEGV"]
  ELSE LET got == SscanfLine(f.lines[rank + 1], color) IN
       IF got.n = EOF
       THEN [none EXCEPT !.err = "Error parsing file line"]
       ELSE [err |-> "", color |-> got.color, work_dir |-> got.work_dir,
             env_vars |-> got.env_vars]

\* A SplitInit that registers nothing.
InstallHandlers_Nothing(p) == p

\* The three flag-driven registrations of SplitInit.
InstallHandlers(p) ==
  [p EXCEPT
     !.sigsegv = IF HasEnv(p.environ, W_IGNORE_SEGV)
                 THEN IF HasEnv(p.environ, W_SIG_PAUSE)
                      THEN "SegvHandlerPause" ELSE "SegvHandler"
                 ELSE @,
     !.sigabrt = IF HasEnv(p.environ, W_IGNORE_ABRT)
                 THEN "AbrtHandlerPause" ELSE @,
     !.atexit = IF HasEnv(p.environ, W_IGNORE_RETURN_CODE)
                THEN <<"ExitHandler">> \o @ ELSE @,
     !.log = @ \o (IF HasEnv(p.environ, W_IGNORE_SEGV)
                   THEN <<"signal SIGSEGV">> ELSE <<>>)
               \o (IF HasEnv(p.environ, W_IGNORE_ABRT)
                   THEN <<"signal SIGABRT">> ELSE <<>>)
               \o (IF HasEnv(p.environ, W_IGNORE_RETURN_CODE)
                   THEN <<"atexit">> ELSE <<>>)]

\* A split that puts every rank into partition 0.
SetSplitCommunicator_OneColor(p) ==
  [p EXCEPT !.pc = "in_split", !.splitEntered = TRUE, !.splitKey = 0, !.color = 0]

\* SetSplitCommunicator(color), up to the point where the split blocks.
SetSplitCommunicator(p) ==
  IF PMPI_Comm_split_status(p.color) # MPI_SUCCESS
  THEN EXIT_PRINT(p, "Failed to split communicator")
  ELSE [Log(p, "PMPI_Comm_split") EXCEPT
          !.pc = "in_split", !.splitEntered = TRUE, !.splitKey = 0]

\* A real init that is the profiling MPI_Init whatever is set and called.
RealInit_AlwaysProfiling(p, entry, real) ==
  [Log(p, "PMPI_Init") EXCEPT !.initEntry = entry, !.initVia = "PMPI_Init",
                              !.initPreload = HasEnv(p.environ, LD_PRELOAD),
                              !.initReals = Append(@, real)]

\* The real init behind the shadowed `entry`: the next definition of the
\* entry's own symbol in load order under W_UNWRAP_INIT, else its profiling
\* twin.  `real` is what it returns.
RealInit(p, entry, real) ==
  LET via == IF HasEnv(p.environ, W_UNWRAP_INIT)
             THEN (IF entry = "MPI_Init" THEN "RTLD_NEXT MPI_Init"
                   ELSE "RTLD_NEXT MPI_Init_thread")
             ELSE (IF entry = "MPI_Init" THEN "PMPI_Init" ELSE "PMPI_Init_thread")
  IN [Log(p, via) EXCEPT !.initEntry = entry, !.initVia = via,
                         !.initPreload = HasEnv(p.environ, LD_PRELOAD),
                         !.initReals = Append(@, real)]

\* SplitInit of world rank r, up to the split.  `garbage` is what the int
\* `color` holds before anything is stored in it.
SplitInit(p, r, garbage, f) ==
  LET p1 == IF HasEnv(p.environ, W_UNSET_PRELOAD)
            THEN [Log(p, "unsetenv") EXCEPT !.environ = Unsetenv(@, LD_PRELOAD)]
            ELSE p
      fromEnv == HasEnv(p1.environ, W_RANK_FROM_ENV)
  IN IF fromEnv /\ ~HasEnv(p1.environ, W_ENV_RANK)
     THEN KilledBy(p1, SIGSEGV)   \* atoi(NULL)
     ELSE LET id == IF fromEnv THEN Atoi(Getenv(p1.environ, W_ENV_RANK)) ELSE r
              got == GetRankParamsFromFile(id, garbage, p1.environ, f)
              p2 == [Log(p1, "GetRankParamsFromFile") EXCEPT !.lineRead = id]
          IN IF got.err = "SIGSEGV" THEN KilledBy(p2, SIGSEGV)
             ELSE IF got.err # "" THEN EXIT_PRINT(p2, got.err)
             ELSE SetSplitCommunicator(
                    InstallHandlers([p2 EXCEPT !.color = got.color,
                                               !.work_dir = got.work_dir,
                                               !.env_vars = got.env_vars]))

\* The shadowed MPI_Init of world rank r, up to the split: the real init,
\* then SplitInit.
MPI_Init(p, r, garbage, f, real) ==
  SplitInit(RealInit(p, "MPI_Init", real), r, garbage, f)

\* The shadowed MPI_Init_thread, likewise.
MPI_Init_thread(p, r, garbage, f, real) ==
  SplitInit(RealInit(p, "MPI_Init_thread", real), r, garbage, f)

\* A process shaper that stays in the launch directory.
SetWorkingDirectory_Stay(p) == p

\* SetWorkingDirectory(work_dir)
SetWorkingDirectory(p) ==
  IF p.work_dir \notin ExistingDirs
  THEN EXIT_PRINT(Log(p, "chdir"), "Failed to change working directory")
  ELSE [Log(p, "chdir") EXCEPT !.cwd = p.work_dir]

\* The file <job_id>_w_<color>.<ext> of the current directory.
OutErrFile(p, ext) ==
  [kind |-> "file", dir |-> p.cwd,
   job |-> IF HasEnv(p.environ, PBS_JOBID) THEN Getenv(p.environ, PBS_JOBID)
           ELSE <<"(", "n", "u", "l", "l", ")">>,
   color |-> p.color, ext |-> ext]

\* SetStdOutErr(color): freopen of stdout, then of stderr, for appending.
\* A freopen that fails leaves its stream closed.
SetStdOutErr(p) ==
  IF p.cwd \in ReadOnlyDirs
  THEN EXIT_PRINT([Log(p, "freopen") EXCEPT !.stdout = Closed],
                  "Error setting stdout!")
  ELSE IF p.cwd \in ErrLockedDirs
  THEN EXIT_PRINT([Log(Log(p, "freopen"), "freopen") EXCEPT
                     !.stdout = OutErrFile(p, "out"), !.stderr = Closed],
                  "Error setting stderr")
  ELSE [Log(Log(p, "freopen"), "freopen") EXCEPT
          !.stdout = OutErrFile(p, "out"), !.stderr = OutErrFile(p, "err")]

\* The loop of SetEnvironmentVaribles over the tokens of env_vars.
RECURSIVE SetEnvironmentTokens(_, _)
SetEnvironmentTokens(p, tokens) ==
  IF tokens = <<>> THEN p
  ELSE LET kv == SscanfKeyValue(Head(tokens)) IN
       IF kv.n = 2
       THEN IF SetenvFails(kv.key)
            THEN EXIT_PRINT(p, "Error setting environment variable")
            ELSE SetEnvironmentTokens(
                   [Log(p, "setenv") EXCEPT
                      !.environ = Setenv(@, kv.key, kv.value)], Tail(tokens))
       ELSE EXIT_PRINT(p, "Error parsing environment_variables")

\* SetEnvironmentVaribles(env_vars)
SetEnvironmentVaribles(p) ==
  LET q == Log(p, "SetEnvironmentVaribles") IN
  IF Len(q.env_vars) = 0 THEN q ELSE SetEnvironmentTokens(q, Strsep(q.env_vars))

\* Runs a step of SplitInit unless an earlier step has ended the process.
InSplitInit(p) == p.pc = "in_split"

\* A SplitInit that reopens the streams before it changes the directory.
SplitInitRest_RedirectFirst(p) ==
  LET p1 == [p EXCEPT !.MPI_COMM_SPLIT = PMPI_Comm_split_newcomm(p.color)]
      p2 == IF HasEnv(p1.environ, W_REDIRECT_OUTERR) THEN SetStdOutErr(p1) ELSE p1
      p3 == IF InSplitInit(p2) THEN SetWorkingDirectory(p2) ELSE p2
      p4 == IF InSplitInit(p3) THEN SetEnvironmentVaribles(p3) ELSE p3
  IN IF InSplitInit(p4)
     THEN [p4 EXCEPT !.pc = "running", !.inited = TRUE,
                     !.initRets = Append(@, p4.initReals[Len(p4.initReals)])]
     ELSE p4

\* SplitInit from the return of the split to the return of MPI_Init.
SplitInitRest(p) ==
  LET p1 == [p EXCEPT !.MPI_COMM_SPLIT = PMPI_Comm_split_newcomm(p.color)]
      p2 == SetWorkingDirectory(p1)
      p3 == IF InSplitInit(p2) /\ HasEnv(p2.environ, W_REDIRECT_OUTERR)
            THEN SetStdOutErr(p2) ELSE p2
      p4 == IF InSplitInit(p3) THEN SetEnvironmentVaribles(p3) ELSE p3
  IN IF InSplitInit(p4)
     THEN [p4 EXCEPT !.pc = "running", !.inited = TRUE,
                     !.initRets = Append(@, p4.initReals[Len(p4.initReals)])]
     ELSE p4

\* A translation that hands every handle back as it came.
GetCorrectComm_AsGiven(p, input_comm) == input_comm

\* If input_comm == MPI_COMM_WORLD return MPI_COMM_SPLIT else input_comm.
GetCorrectComm(p, input_comm) ==
  IF input_comm = MPI_COMM_WORLD THEN p.MPI_COMM_SPLIT ELSE input_comm

(***************************************************************************)
(* The job: configuration files, environments, the application             *)
(***************************************************************************)
DigitChar(d) == <<"0", "1", "2", "3", "4", "5", "6", "7", "8", "9">>[d + 1]

\* The line "<color> <work_dir>": /a for color 0, /b for the others.
ColorLine(c) == <<DigitChar(c), " ">> \o (IF c = 0 THEN Dir_a ELSE Dir_b)

\* 0 /a, 0 /a, 1 /b, 1 /b, ...: neighbours share a color.
PairsFile(n) == [i \in 1 .. n |-> ColorLine((i - 1) \div 2)]

\* 0 /a, 1 /b, 0 /a, 1 /b, ...: the colors alternate.
AlternatingFile(n) == [i \in 1 .. n |-> ColorLine((i - 1) % 2)]

\* 0 /a F=b;G=q
EnvLine == <<"0", " ", "/", "a", " ", "F", "=", "b", ";", "G", "=", "q">>

\* x /a
NoColorLine == <<"x", " ", "/", "a">>

\* The file f with the line of rank r replaced.
WithLine(f, r, line) == [f EXCEPT ![r + 1] = line]

ConfigFiles(n) ==
  {PairsFile(n), AlternatingFile(n),
   WithLine(PairsFile(n), 0, EnvLine), WithLine(PairsFile(n), 0, NoColorLine)}

\* The environment the job launcher gives every process, with these flags set.
Environment(flags) ==
  {<<WRAPRUN_FILE, ConfigPath>>, <<PBS_JOBID, <<"4", "2">>>>,
   <<LD_PRELOAD, <<"l", "i", "b", "s", "p", "l", "i", "t">>>>}
    \cup {<<flag, <<"1">>>> : flag \in flags}

FlagSets == {{}, {W_IGNORE_SEGV}, {W_IGNORE_SEGV, W_SIG_PAUSE}}

\* What an int on the stack may hold before it is assigned.
StackInts == {MPI_UNDEFINED, -1, 0, 1}

\* The handles an application holds without having created a communicator.
AppComms == {MPI_COMM_NULL, MPI_COMM_WORLD, MPI_COMM_SELF}

NoWrapper == [kind |-> "none"]

NoCall ==
  [rank |-> 0, f |-> "", comms |-> <<>>, rest |-> 0,
   twin |-> [comms |-> <<>>, rest |-> 0], status |-> 0, ret |-> 0]

Init ==
  /\ world = Ranks
  /\ \E lines \in ConfigFiles(NumRanks) : file = [exists |-> TRUE, lines |-> lines]
  /\ \E flags \in FlagSets : proc = [r \in Ranks |-> NewProcess(Environment(flags))]
  /\ faults = 0
  /\ app = [barriers |-> MaxBarriers]
  /\ call = NoCall
  /\ wrapper = NoWrapper

(***************************************************************************)
(* Actions                                                                 *)
(***************************************************************************)
\* The application of rank r calls MPI_Init.
AppInit(r) ==
  /\ proc[r].pc = "start"
  /\ \E garbage \in StackInts :
       proc' = [proc EXCEPT ![r] = MPI_Init(proc[r], r, garbage, file, MPI_SUCCESS)]
  /\ UNCHANGED <<world, file, faults, app, call, wrapper>>

\* The split returns to rank r, and SplitInit and MPI_Init run to their end.
SplitReturn(r) ==
  /\ proc[r].pc = "in_split"
  /\ SplitComplete
  /\ proc' = [proc EXCEPT ![r] = SplitInitRest(proc[r])]
  /\ UNCHANGED <<world, file, faults, app, call, wrapper>>

\* A barrier on the communicator as the application named it.
MPI_Barrier_Untranslated(p, comm) ==
  [p EXCEPT !.pc = "in_barrier", !.barrierComm = comm, !.nbar = @ + 1]

\* The shadowed MPI_Barrier(comm) of rank r, up to the point where it blocks.
MPI_Barrier(p, comm) ==
  LET correct_comm == GetCorrectComm(p, comm) IN
  IF correct_comm = MPI_COMM_NULL THEN p   \* PMPI_Barrier returns MPI_ERR_COMM
  ELSE [p EXCEPT !.pc = "in_barrier", !.barrierComm = correct_comm, !.nbar = @ + 1]

\* The application of rank r calls MPI_Barrier(MPI_COMM_WORLD).
AppBarrier(r) ==
  /\ proc[r].pc = "running"
  /\ proc[r].nbar < app.barriers
  /\ proc' = [proc EXCEPT ![r] = MPI_Barrier(proc[r], MPI_COMM_WORLD)]
  /\ UNCHANGED <<world, file, faults, app, call, wrapper>>

\* The barrier returns to rank r.
BarrierReturn(r) ==
  /\ proc[r].pc = "in_barrier"
  /\ BarrierComplete(r)
  /\ proc' = [proc EXCEPT ![r].pc = "running"]
  /\ UNCHANGED <<world, file, faults, app, call, wrapper>>

\* The application of rank r calls MPI_Finalize, its barriers behind it.
AppFinalize(r) ==
  /\ proc[r].pc = "running"
  /\ proc[r].nbar = app.barriers
  /\ proc' = [proc EXCEPT ![r] = MPI_Finalize(proc[r], "main")]
  /\ UNCHANGED <<world, file, faults, app, call, wrapper>>

\* The underlying finalize returns to rank r, and MPI_Finalize and its caller
\* run on.
FinalizeReturn(r) ==
  /\ proc[r].pc = "in_finalize"
  /\ FinalizeComplete
  /\ proc' = [proc EXCEPT ![r] = PMPI_Finalize_return(proc[r], MPI_SUCCESS)]
  /\ UNCHANGED <<world, file, faults, app, call, wrapper>>

\* The application of rank r returns 0 from main after MPI_Finalize.
AppReturn(r) ==
  /\ proc[r].pc = "finalized"
  /\ proc' = [proc EXCEPT ![r] = Exit(proc[r], EXIT_SUCCESS)]
  /\ UNCHANGED <<world, file, faults, app, call, wrapper>>

\* The application code of rank r raises a segmentation fault.
Segv(r) ==
  /\ proc[r].pc \in {"running", "finalized"}
  /\ faults < MaxFaults
  /\ proc' = [proc EXCEPT ![r] = DeliverSegv([proc[r] EXCEPT !.segv = TRUE])]
  /\ faults' = faults + 1
  /\ UNCHANGED <<world, file, app, call, wrapper>>

\* A process that ended by a signal or with a code other than 0.
Unclean(p) ==
  p.term.kind = "signal" \/ (p.term.kind = "exit" /\ p.term.code # EXIT_SUCCESS)

\* The least rank that ended uncleanly.
FirstUnclean ==
  CHOOSE r \in world : Unclean(proc[r]) /\ \A o \in world : Unclean(proc[o]) => r <= o

\* The job launcher ends every rank that still runs, because a rank ended
\* uncleanly.
JobAbort ==
  /\ \E r \in world : Unclean(proc[r])
  /\ \E q \in world : proc[q].pc # "done"
  /\ proc' = [q \in world |->
                IF proc[q].pc = "done" THEN proc[q]
                ELSE [proc[q] EXCEPT !.pc = "done",
                                     !.term = [kind |-> "aborted", code |-> 0],
                                     !.abortedBy = FirstUnclean]]
  /\ UNCHANGED <<world, file, faults, app, call, wrapper>>

Next ==
  \/ \E r \in world : AppInit(r)
  \/ \E r \in world : SplitReturn(r)
  \/ \E r \in world : AppBarrier(r)
  \/ \E r \in world : BarrierReturn(r)
  \/ \E r \in world : AppFinalize(r)
  \/ \E r \in world : FinalizeReturn(r)
  \/ \E r \in world : AppReturn(r)
  \/ \E r \in world : Segv(r)
  \/ JobAbort

Spec == Init /\ [][Next]_vars

(***************************************************************************)
(* The comm substitution table                                             *)
(***************************************************************************)
\* The shadows with one MPI_Comm parameter.
OneComm ==
  {"MPI_Send", "MPI_Recv", "MPI_Bsend", "MPI_Ssend", "MPI_Rsend", "MPI_Isend",
   "MPI_Ibsend", "MPI_Issend", "MPI_Irsend", "MPI_Irecv", "MPI_Iprobe",
   "MPI_Probe", "MPI_Send_init", "MPI_Bsend_init", "MPI_Ssend_init",
   "MPI_Rsend_init", "MPI_Recv_init", "MPI_Sendrecv", "MPI_Sendrecv_replace",
   "MPI_Pack", "MPI_Unpack", "MPI_Pack_size", "MPI_Barrier", "MPI_Bcast",
   "MPI_Gather", "MPI_Gatherv", "MPI_Scatter", "MPI_Scatterv",
   "MPI_Allgather", "MPI_Allgatherv", "MPI_Alltoall", "MPI_Alltoallv",
   "MPI_Alltoallw", "MPI_Exscan", "MPI_Reduce", "MPI_Allreduce",
   "MPI_Reduce_scatter", "MPI_Scan", "MPI_Comm_group", "MPI_Comm_size",
   "MPI_Comm_rank", "MPI_Comm_dup", "MPI_Comm_dup_with_info",
   "MPI_Comm_create", "MPI_Comm_split", "MPI_Comm_test_inter",
   "MPI_Comm_remote_size", "MPI_Comm_remote_group", "MPI_Intercomm_merge",
   "MPI_Attr_put", "MPI_Attr_get", "MPI_Attr_delete", "MPI_Topo_test",
   "MPI_Cart_create", "MPI_Graph_create", "MPI_Graphdims_get",
   "MPI_Graph_get", "MPI_Cartdim_get", "MPI_Cart_get", "MPI_Cart_rank",
   "MPI_Cart_coords", "MPI_Graph_neighbors_count", "MPI_Graph_neighbors",
   "MPI_Cart_shift", "MPI_Cart_sub", "MPI_Cart_map", "MPI_Graph_map",
   "MPI_Errhandler_set", "MPI_Errhandler_get", "MPI_Abort",
   "MPI_Comm_connect", "MPI_Comm_spawn", "MPI_Comm_spawn_multiple",
   "MPI_Comm_set_info", "MPI_Comm_get_info", "MPI_Win_create",
   "MPI_Win_allocate", "MPI_Win_allocate_shared", "MPI_Win_create_dynamic",
   "MPI_Comm_call_errhandler", "MPI_Comm_delete_attr", "MPI_Comm_get_attr",
   "MPI_Comm_get_name", "MPI_Comm_set_attr", "MPI_Comm_set_name",
   "MPI_Comm_get_errhandler", "MPI_Comm_set_errhandler",
   "MPI_Reduce_scatter_block", "MPI_Dist_graph_create_adjacent",
   "MPI_Dist_graph_create", "MPI_Dist_graph_neighbors_count",
   "MPI_Dist_graph_neighbors", "MPI_Improbe", "MPI_Mprobe", "MPI_Comm_idup",
   "MPI_Ibarrier", "MPI_Ibcast", "MPI_Igather", "MPI_Igatherv",
   "MPI_Iscatter", "MPI_Iscatterv", "MPI_Iallgather", "MPI_Iallgatherv",
   "MPI_Ialltoall", "MPI_Ialltoallv", "MPI_Ialltoallw", "MPI_Ireduce",
   "MPI_Iallreduce", "MPI_Ireduce_scatter", "MPI_Ireduce_scatter_block",
   "MPI_Iscan", "MPI_Iexscan", "MPI_Ineighbor_allgather",
   "MPI_Ineighbor_allgatherv", "MPI_Ineighbor_alltoall",
   "MPI_Ineighbor_alltoallv", "MPI_Ineighbor_alltoallw",
   "MPI_Neighbor_allgather", "MPI_Neighbor_allgatherv",
   "MPI_Neighbor_alltoall", "MPI_Neighbor_alltoallv",
   "MPI_Neighbor_alltoallw", "MPI_Comm_split_type", "MPI_Comm_create_group",
   "MPIX_Comm_group_failed", "MPIX_Comm_remote_group_failed",
   "MPIX_Comm_reenable_anysource", "MPI_File_open"}

\* The shadows with two MPI_Comm parameters.
TwoComms ==
  {"MPI_Comm_compare", "MPI_Intercomm_create"}

\* The shadows that take the handle by pointer, to release it.
CommByPointer ==
  {"MPI_Comm_free", "MPI_Comm_disconnect"}

EntryPoints == OneComm \cup TwoComms \cup CommByPointer

\* The communicators an application may pass to entry point f.
CommArgs(f) ==
  IF f \in TwoComms THEN AppComms \X AppComms ELSE {<<c>> : c \in AppComms}

\* Stand-ins for the arguments of a call that are no communicators.
OtherArgs == {0, 1}

\* The statuses a profiling twin returns.
Statuses == {MPI_SUCCESS, MPI_ERR_COMM, MPI_ERR_ARG}

\* A table in which every shadow translates.
ForwardsAsGiven_Never(f) == FALSE

\* The shadow of f leaves the communicator as the caller gave it.
ForwardsAsGiven(f) == f \in CommByPointer

\* The arguments the shadow of f hands to its profiling twin.
ShadowArgs(p, f, comms, rest) ==
  [comms |-> IF ForwardsAsGiven(f) THEN comms
             ELSE [i \in 1 .. Len(comms) |-> GetCorrectComm(p, comms[i])],
   rest |-> rest]

\* A shadow that reports success whatever its twin returned.
ShadowReturn_Success(status) == MPI_SUCCESS

\* What the shadow returns when its twin returns status: return PMPI_f(...).
ShadowReturn(status) == status

\* The application of rank r calls the shadowed entry point f; its twin
\* returns status.
AppCall(r) ==
  /\ proc[r].pc \in {"start", "running", "finalized"}
  /\ call = NoCall
  /\ wrapper = NoWrapper
  /\ \E f \in EntryPoints, rest \in OtherArgs, status \in Statuses :
       \E comms \in CommArgs(f) :
         call' = [rank |-> r, f |-> f, comms |-> comms, rest |-> rest,
                  twin |-> ShadowArgs(proc[r], f, comms, rest),
                  status |-> status, ret |-> ShadowReturn(status)]
  /\ UNCHANGED <<world, file, proc, faults, app, wrapper>>

\* The application of rank r is done with the result of its call.
AppCallDone(r) ==
  /\ call # NoCall
  /\ call.rank = r
  /\ call' = NoCall
  /\ UNCHANGED <<world, file, proc, faults, app, wrapper>>

\* A world of one rank, whose line is "0 /a" or "1 /b".
InitShadow ==
  /\ world = {0}
  /\ \E c \in {0, 1} : file = [exists |-> TRUE, lines |-> <<ColorLine(c)>>]
  /\ proc = [r \in {0} |-> NewProcess(Environment({}))]
  /\ faults = 0
  /\ app = [barriers |-> 0]
  /\ call = NoCall
  /\ wrapper = NoWrapper

NextShadow ==
  \/ \E r \in world : AppInit(r)
  \/ \E r \in world : SplitReturn(r)
  \/ \E r \in world : AppFinalize(r)
  \/ \E r \in world : FinalizeReturn(r)
  \/ \E r \in world : AppReturn(r)
  \/ \E r \in world : AppCall(r)
  \/ \E r \in world : AppCallDone(r)

\* One process, whose application calls any shadowed entry point at any time.
SpecShadow == InitShadow /\ [][NextShadow]_vars

(***************************************************************************)
(* Properties of the comm substitution table (SpecShadow)                  *)
(***************************************************************************)
\* A step in which the application calls a shadowed entry point.
Calls == call = NoCall /\ call' # NoCall

\* c as the translation rule gives it for the process that makes the call:
\* the split communicator for the world handle, c itself otherwise.
Translated(c) ==
  IF c = MPI_COMM_WORLD THEN proc[call'.rank].MPI_COMM_SPLIT ELSE c

\* C1, as stated: whatever shadowed entry point the application calls, and in
\* whatever lifecycle state, every communicator argument c reaches the
\* profiling twin as (c == WORLD ? SPLIT_COMM : c), each of two communicator
\* arguments on its own, and every other argument reaches it unchanged.
C1_EveryShadowTranslates ==
  [][Calls =>
       /\ Len(call'.twin.comms) = Len(call'.comms)
       /\ \A i \in 1 .. Len(call'.comms) :
            call'.twin.comms[i] = Translated(call'.comms[i])
       /\ call'.twin.rest = call'.rest]_vars

\* C1, amended: the rule holds for every shadowed entry point but MPI_Comm_free
\* and MPI_Comm_disconnect, which hand the caller's handle on as given; every
\* other argument reaches the twin unchanged for all of them.
C1_ShadowsTranslateButRelease ==
  [][Calls =>
       /\ Len(call'.twin.comms) = Len(call'.comms)
       /\ \A i \in 1 .. Len(call'.comms) :
            call'.twin.comms[i] =
              IF call'.f \in {"MPI_Comm_free", "MPI_Comm_disconnect"}
              THEN call'.comms[i] ELSE Translated(call'.comms[i])
       /\ call'.twin.rest = call'.rest]_vars

\* After init, MPI_Comm_compare(WORLD, SELF) reaches its twin as
\* (split communicator, SELF): the first handle replaced, the second kept.
C1_Witness ==
  /\ call.f = "MPI_Comm_compare"
  /\ call.comms = <<MPI_COMM_WORLD, MPI_COMM_SELF>>
  /\ proc[call.rank].pc = "running"
  /\ proc[call.rank].MPI_COMM_SPLIT >= FirstSplitComm
  /\ call.twin.comms = <<proc[call.rank].MPI_COMM_SPLIT, MPI_COMM_SELF>>
  /\ call.twin.rest = call.rest

\* C2: the caller of a shadowed entry point observes exactly the status its
\* profiling twin returned, success or error.
C2_ShadowReturnsTwinStatus ==
  call # NoCall => call.ret = call.status

\* MPI_Allreduce whose twin fails with MPI_ERR_COMM returns MPI_ERR_COMM.
C2_Witness ==
  /\ call.f = "MPI_Allreduce"
  /\ call.status = MPI_ERR_COMM
  /\ call.ret = MPI_ERR_COMM

\* C6: MPI_Comm_free and MPI_Comm_disconnect hand the caller's handle to the
\* underlying call exactly as given (WORLD stays WORLD), and what they hand on
\* is never a split communicator.
C6_ReleaseForwardsAsGiven ==
  call.f \in {"MPI_Comm_free", "MPI_Comm_disconnect"} =>
    /\ call.twin.comms = call.comms
    /\ \A i \in 1 .. Len(call.twin.comms) : call.twin.comms[i] < FirstSplitComm

\* After init, with a split communicator held, MPI_Comm_free(&WORLD) reaches
\* the underlying free with WORLD.
C6_Witness ==
  /\ call.f = "MPI_Comm_free"
  /\ call.comms = <<MPI_COMM_WORLD>>
  /\ call.twin.comms = <<MPI_COMM_WORLD>>
  /\ proc[call.rank].pc = "running"
  /\ proc[call.rank].MPI_COMM_SPLIT >= FirstSplitComm

(***************************************************************************)
(* What the configuration file asks for, read field by field               *)
(***************************************************************************)
\* The k-th white-space separated field of s at or after index i, <<>> if none.
RECURSIVE FieldFrom(_, _, _)
FieldFrom(s, i, k) ==
  LET w == ScanStr(s, i) IN
  IF w.r = "eof" THEN <<>>
  ELSE IF k = 1 THEN w.val ELSE FieldFrom(s, w.next, k - 1)

\* The k-th field of the configuration line of rank r.
Field(r, k) == FieldFrom(file.lines[r + 1], 1, k)

\* An optional sign and one or more digits.
IsSignedInteger(t) ==
  LET k == IF t # <<>> /\ t[1] \in {"+", "-"} THEN 2 ELSE 1 IN
  k <= Len(t) /\ \A i \in k .. Len(t) : IsDigit(t[i])

ConfiguredColor(r) == Atoi(Field(r, 1))

ConfiguredWorkDir(r) == Field(r, 2)

\* The colors of the lines of the ranks 0 .. n-1, one after the other.
RECURSIVE ConfiguredColors(_)
ConfiguredColors(n) ==
  IF n = 0 THEN <<>>
  ELSE Append(ConfiguredColors(n - 1), ConfiguredColor(n - 1))

\* The ranks whose lines carry the color of the line of rank r.
Peers(r) ==
  LET c == ConfiguredColor(r) IN {q \in world : ConfiguredColor(q) = c}

\* Every rank of the world has completed init.
AllInited == \A q \in world : proc[q].inited

\* Rank r holds a split communicator.
Holds(r) == proc[r].MPI_COMM_SPLIT >= FirstSplitComm

\* What the shadowed MPI_Comm_size and MPI_Comm_rank report to rank r.
MPI_Comm_size(r, comm) == PMPI_Comm_size(GetCorrectComm(proc[r], comm))

MPI_Comm_rank(r, comm) == PMPI_Comm_rank(GetCorrectComm(proc[r], comm), r)

C4_SplitByColor ==
  AllInited =>
    LET color == ConfiguredColors(Cardinality(world)) IN
    /\ \A r \in world : Holds(r) =>
         LET comm == proc[r].MPI_COMM_SPLIT
             members == Members(comm)
             group == Group(comm)
         IN
         /\ \A q \in world : q \in members <=> color[q + 1] = color[r + 1]
         /\ \A q \in world : Holds(q) =>
              /\ (proc[q].MPI_COMM_SPLIT = comm) <=> q \in members
              /\ \/ Members(proc[q].MPI_COMM_SPLIT) = members
                 \/ Members(proc[q].MPI_COMM_SPLIT) \cap members = {}
         /\ \A i, j \in 1 .. Len(group) : i < j => group[i] < group[j]
         /\ MPI_Comm_size(r, MPI_COMM_WORLD) =
              Cardinality({q \in world : color[q + 1] = color[r + 1]})
         /\ MPI_Comm_rank(r, MPI_COMM_WORLD) =
              Cardinality({q \in world : color[q + 1] = color[r + 1] /\ q < r})
    /\ (\A r \in world : Holds(r)) =>
         UNION {Members(proc[r].MPI_COMM_SPLIT) : r \in world} = world
    /\ (world = 0 .. 3 /\ color = <<0, 0, 1, 1>>) =>
         \A r \in world : Holds(r) =>
           /\ MPI_Comm_size(r, MPI_COMM_WORLD) = 2
           /\ MPI_Comm_rank(r, MPI_COMM_WORLD) = r % 2

\* The colors 0,0,1,1 on the ranks 0..3, every rank through init: the ranks 0
\* and 1 make up one partition, and rank 3 is rank 1 of 2 in the other.
C4_Witness ==
  /\ AllInited
  /\ world = 0 .. 3
  /\ \A r \in world : Holds(r) /\ ConfiguredColor(r) = r \div 2
  /\ Members(proc[0].MPI_COMM_SPLIT) = {0, 1}
  /\ proc[2].MPI_COMM_SPLIT # proc[0].MPI_COMM_SPLIT
  /\ MPI_Comm_size(3, MPI_COMM_WORLD) = 2
  /\ MPI_Comm_rank(3, MPI_COMM_WORLD) = 1

\* C5: with every rank through init, a barrier on the world handle returns to
\* a rank as soon as every rank of its own partition has entered it, whatever
\* the ranks of the other partitions do, and has returned to no rank before
\* every rank of its partition had entered it.
C5_BarrierWithinPartition ==
  AllInited =>
    LET color == ConfiguredColors(Cardinality(world)) IN
    \A r \in world :
      LET peers == {q \in world : color[q + 1] = color[r + 1]} IN
      /\ (/\ proc[r].pc = "in_barrier"
          /\ \A q \in peers : EnteredBarrier(q, proc[r].nbar))
           => ENABLED BarrierReturn(r)
      /\ (/\ proc[r].nbar >= 1
          /\ proc[r].pc # "in_barrier"
          /\ proc[r].term.kind # "aborted")
           => \A q \in peers : EnteredBarrier(q, proc[r].nbar)

\* A rank is back from its barrier while a rank of another partition has not
\* entered any.
C5_Witness ==
  /\ AllInited
  /\ \E r \in world, q \in world :
       /\ q \notin Peers(r)
       /\ proc[r].pc = "running" /\ proc[r].nbar = 1
       /\ proc[q].pc = "running" /\ proc[q].nbar = 0
       /\ \A o \in Peers(r) : proc[o].nbar = 1

\* The elements of a semicolon-separated environment string.
Elements(env_string) ==
  {Strsep(env_string)[i] : i \in 1 .. Len(Strsep(env_string))}

\* An element split on its first '='.
NameOf(element) == SubSeq(element, 1, IndexOf(element, "=", 1) - 1)

ValueOf(element) ==
  SubSeq(element, IndexOf(element, "=", 1) + 1, Len(element))

\* The process of rank r is past the process shaper, by its own doing.
PastShaper(r) ==
  /\ proc[r].splitEntered
  /\ proc[r].pc # "in_split"
  /\ proc[r].term.kind # "aborted"

\* C7, as stated: a rank whose line carries an environment string of
\* name=value elements completes init, and its environment then maps every
\* listed name to its listed value, each element split on its first '='.
C7_EnvironmentStringAssigned ==
  \A r \in world :
    (Field(r, 3) # <<>> /\ PastShaper(r)) =>
      /\ proc[r].inited
      /\ \A element \in Elements(Field(r, 3)) :
           /\ HasEnv(proc[r].environ, NameOf(element))
           /\ Getenv(proc[r].environ, NameOf(element)) = ValueOf(element)

\* The line of rank r is a color and an existing work_dir, and nothing else.
ColorAndWorkDirOnly(r) ==
  /\ IsSignedInteger(Field(r, 1))
  /\ Field(r, 2) \in ExistingDirs
  /\ Field(r, 3) = <<>>
  /\ HasEnv(proc[r].environ, W_REDIRECT_OUTERR) => Field(r, 2) \notin ReadOnlyDirs

\* C8: for a rank whose line is a color and a work_dir and no environment
\* string, the process shaper runs to the end of init, leaves the environment
\* as it found it, and the current directory of the process is, from then on,
\* the work_dir of the line.
C8_WorkDirOnlyLine ==
  [][\A r \in world :
       /\ (/\ proc[r].pc = "in_split"
           /\ proc'[r].pc # "in_split"
           /\ proc'[r].term.kind # "aborted"
           /\ ColorAndWorkDirOnly(r))
            => /\ proc'[r].pc = "running"
               /\ proc'[r].inited
               /\ proc'[r].environ = proc[r].environ
               /\ proc'[r].cwd = ConfiguredWorkDir(r)
       /\ proc[r].inited => proc'[r].cwd = proc[r].cwd]_vars

\* Two ranks of different colors are through init, one in /a, the other in /b.
C8_Witness ==
  \E r \in world, q \in world :
    /\ ColorAndWorkDirOnly(r) /\ ColorAndWorkDirOnly(q)
    /\ ConfiguredColor(r) # ConfiguredColor(q)
    /\ proc[r].pc = "running" /\ proc[r].cwd = Dir_a
    /\ proc[q].pc = "running" /\ proc[q].cwd = Dir_b
    /\ ~HasEnv(proc[r].environ, <<"F">>)

\* C9, as stated: a rank whose line does not begin with a signed integer
\* enters no split; when it has called init, it has written a diagnostic and
\* exited with failure.
C9_MalformedLineIsFatal ==
  \A r \in world :
    ~IsSignedInteger(Field(r, 1)) =>
      /\ ~proc[r].splitEntered
      /\ (proc[r].pc # "start" /\ proc[r].term.kind # "aborted") =>
           /\ proc[r].pc = "done"
           /\ proc[r].term = [kind |-> "exit", code |-> EXIT_FAILURE]
           /\ proc[r].stderrLog # <<>>

\* Rank f took a segmentation fault after init, under W_IGNORE_SEGV without
\* W_SIG_PAUSE.
FaultHandled(f) ==
  /\ proc[f].segv
  /\ HasEnv(proc[f].environ, W_IGNORE_SEGV)
  /\ ~HasEnv(proc[f].environ, W_SIG_PAUSE)

\* What the faulting rank itself does: the diagnostic, the attempt to
\* finalize, and the success status it ends with.
FaultingRankEndsWell(f) ==
  /\ \E i \in 1 .. Len(proc[f].stderrLog) :
       proc[f].stderrLog[i] = "ERROR: Signal SEGV Received"
  /\ EnteredFinalize(f) \/ proc[f].term.kind = "aborted"
  /\ (proc[f].pc = "done" /\ proc[f].term.kind # "aborted") =>
       proc[f].term = [kind |-> "exit", code |-> EXIT_SUCCESS]

\* Rank q was ended by the job launcher on account of rank f.
AbortedBy(q, f) == proc[q].term.kind = "aborted" /\ proc[q].abortedBy = f

\* Rank q has run to completion.
Completed(q) ==
  proc[q].pc = "done" /\ proc[q].term = [kind |-> "exit", code |-> EXIT_SUCCESS]

\* C10, as stated: the faulting rank writes its diagnostic, attempts to
\* finalize and ends with success, and every rank of every other partition
\* runs to completion: none is aborted on account of the fault, and none is
\* left short of completion in a job in which nothing can happen any more.
C10_OtherPartitionsComplete ==
  \A f \in world : (FaultHandled(f) /\ AllInited) =>
    /\ FaultingRankEndsWell(f)
    /\ \A q \in world \ Peers(f) :
         /\ ~AbortedBy(q, f)
         /\ Completed(q) \/ ENABLED Next

\* What the handler does achieve: the faulting rank writes its diagnostic,
\* attempts to finalize and ends with success; no rank of another partition is
\* aborted on account of the fault, and none waits for the faulting rank
\* itself: its barrier returns once its own partition has entered it, and its
\* finalize returns once every rank but the faulting one has entered finalize.
\* The ranks of the other partitions wait, in finalize, for the peers of the
\* faulting rank.
OtherPartitionsNotHeldByFaulting ==
  \A f \in world : (FaultHandled(f) /\ AllInited) =>
    /\ FaultingRankEndsWell(f)
    /\ \A q \in world \ Peers(f) :
         /\ ~AbortedBy(q, f)
         /\ (/\ proc[q].pc = "in_barrier"
             /\ \A o \in Peers(q) : EnteredBarrier(o, proc[q].nbar))
              => ENABLED BarrierReturn(q)
         /\ (/\ proc[q].pc = "in_finalize"
             /\ \A o \in world \ {f} : EnteredFinalize(o))
              => ENABLED FinalizeReturn(q)

(***************************************************************************)
(* The flags of SplitInit and MPI_Finalize: a job of two processes under   *)
(* every set of at most MaxFlags flags, run by an application that may     *)
(* call either init, exit with any code, abort or fault.                   *)
(***************************************************************************)
MaxFlags == 2

Flags ==
  {W_IGNORE_SEGV, W_IGNORE_ABRT, W_SIG_PAUSE, W_IGNORE_RETURN_CODE,
   W_REDIRECT_OUTERR, W_UNSET_PRELOAD, W_UNWRAP_INIT, W_UNWRAP_FINALIZE}

\* The codes the application passes to exit().
ExitCodes == {EXIT_SUCCESS, 3}

\* What the real init and the underlying finalize may return.
RealStatuses == {MPI_SUCCESS, MPI_ERR_ARG}

InitFlags ==
  /\ world = {0, 1}
  /\ \E line \in {ColorLine(0), EnvLine} :
       file = [exists |-> TRUE, lines |-> <<line, ColorLine(1)>>]
  /\ \E flags \in SUBSET Flags :
       /\ Cardinality(flags) <= MaxFlags
       /\ proc = [r \in {0, 1} |-> NewProcess(Environment(flags))]
  /\ faults = 0
  /\ app = [barriers |-> 0]
  /\ call = NoCall
  /\ wrapper = NoWrapper

\* The application of rank r calls MPI_Init or MPI_Init_thread, and the real
\* init returns any status.
AppInitAny(r) ==
  /\ proc[r].pc = "start"
  /\ \E garbage \in StackInts, real \in RealStatuses :
       \/ proc' = [proc EXCEPT ![r] = MPI_Init(proc[r], r, garbage, file, real)]
       \/ proc' = [proc EXCEPT ![r] =
                     MPI_Init_thread(proc[r], r, garbage, file, real)]
  /\ UNCHANGED <<world, file, faults, app, call, wrapper>>

\* The underlying finalize returns any status to rank r.
FinalizeReturnAny(r) ==
  /\ proc[r].pc = "in_finalize"
  /\ FinalizeComplete
  /\ \E status \in RealStatuses :
       proc' = [proc EXCEPT ![r] = PMPI_Finalize_return(proc[r], status)]
  /\ UNCHANGED <<world, file, faults, app, call, wrapper>>

\* The application of rank r calls exit(code), before or after MPI_Finalize.
AppExit(r) ==
  /\ proc[r].pc \in {"running", "finalized"}
  /\ \E code \in ExitCodes : proc' = [proc EXCEPT ![r] = Exit(proc[r], code)]
  /\ UNCHANGED <<world, file, faults, app, call, wrapper>>

\* The application code of rank r calls abort().
Abrt(r) ==
  /\ proc[r].pc \in {"running", "finalized"}
  /\ faults < MaxFaults
  /\ proc' = [proc EXCEPT ![r] = DeliverAbrt([proc[r] EXCEPT !.abrt = TRUE])]
  /\ faults' = faults + 1
  /\ UNCHANGED <<world, file, app, call, wrapper>>

NextFlags ==
  \/ \E r \in world : AppInitAny(r)
  \/ \E r \in world : SplitReturn(r)
  \/ \E r \in world : AppFinalize(r)
  \/ \E r \in world : FinalizeReturnAny(r)
  \/ \E r \in world : AppReturn(r)
  \/ \E r \in world : AppExit(r)
  \/ \E r \in world : Segv(r)
  \/ \E r \in world : Abrt(r)
  \/ JobAbort

SpecFlags == InitFlags /\ [][NextFlags]_vars

(***************************************************************************)
(* C11: the abort signal                                                   *)
(***************************************************************************)
\* The rank has taken an abort signal with W_IGNORE_ABRT in its environment.
AbortHandled(r) ==
  proc[r].abrt /\ proc[r].inited /\ HasEnv(proc[r].environ, W_IGNORE_ABRT)

AbrtDiagnostics ==
  {"ERROR: Signal SIGABRT Received", "ERROR: Signal Abrt Received"}

\* The rank wrote a diagnostic and is finalizing, or has ended with success
\* after the finalize.
AbortedRankFinalizesAndExits(r) ==
  /\ \E i \in 1 .. Len(proc[r].stderrLog) : proc[r].stderrLog[i] \in AbrtDiagnostics
  /\ \/ proc[r].pc = "in_finalize"
     \/ /\ proc[r].pc = "done"
        /\ proc[r].term = [kind |-> "exit", code |-> EXIT_SUCCESS]
        /\ proc[r].mpiFinalized
     \/ proc[r].pc = "done" /\ proc[r].term.kind = "aborted"

\* The rank wrote a diagnostic and blocks.
AbortedRankBlocks(r) ==
  /\ \E i \in 1 .. Len(proc[r].stderrLog) : proc[r].stderrLog[i] \in AbrtDiagnostics
  /\ \/ proc[r].pc = "paused"
     \/ proc[r].pc = "done" /\ proc[r].term.kind = "aborted"

\* C11: with W_IGNORE_ABRT set and W_SIG_PAUSE unset, a process that takes an
\* abort signal writes a diagnostic, finalizes and exits with success; with
\* both set it writes a diagnostic and blocks.
C11_AbortSymmetricToSegv ==
  \A r \in world :
    AbortHandled(r) =>
      IF HasEnv(proc[r].environ, W_SIG_PAUSE)
      THEN AbortedRankBlocks(r) ELSE AbortedRankFinalizesAndExits(r)

\* What the registration of split.c does: under W_IGNORE_ABRT the process
\* blocks, with or without W_SIG_PAUSE.
AbortAlwaysBlocks ==
  \A r \in world :
    AbortHandled(r) =>
      \/ proc[r].pc = "paused"
      \/ proc[r].pc = "done" /\ proc[r].term.kind = "aborted"

(***************************************************************************)
(* C12: the exit hook                                                      *)
(***************************************************************************)
\* How many times the process has entered the underlying finalize.
RECURSIVE CountIn(_, _)
CountIn(log, names) ==
  IF log = <<>> THEN 0
  ELSE (IF Head(log) \in names THEN 1 ELSE 0) + CountIn(Tail(log), names)

RealFinalizes == {"PMPI_Finalize", "RTLD_NEXT MPI_Finalize"}

\* The rank has left by exit() or by a return from main after its init, with
\* the exit hook registered.
ExitedUnderHook(r) ==
  /\ HasEnv(proc[r].environ, W_IGNORE_RETURN_CODE)
  /\ proc[r].inited
  /\ proc[r].exitArg # -1
  /\ proc[r].pc = "done"
  /\ proc[r].term.kind = "exit"

\* C12: with W_IGNORE_RETURN_CODE set, a process that exits after its init,
\* with any code, ends with status 0 and with MPI finalized exactly once: by
\* the hook if the application had not finalized, by the application alone
\* if it had.
C12_ExitHookForcesSuccess ==
  \A r \in world :
    ExitedUnderHook(r) =>
      /\ proc[r].term.code = EXIT_SUCCESS
      /\ proc[r].mpiFinalized
      /\ CountIn(proc[r].log, RealFinalizes) = 1

\* exit(3) before MPI_Finalize: the hook has finalized and the status is 0.
C12_Witness ==
  \E r \in world :
    /\ ExitedUnderHook(r)
    /\ proc[r].exitArg = 3
    /\ proc[r].term.code = EXIT_SUCCESS
    /\ proc[r].finalizeRets # <<>>

(***************************************************************************)
(* intra_wrapper.c: the launcher instances of one node                     *)
(***************************************************************************)
MaxInstances == 3

WRAPRUN_PRELOAD ==
  <<"W", "R", "A", "P", "R", "U", "N", "_", "P", "R", "E", "L", "O", "A", "D">>

\* The token "::" of the launcher's command line.
Separator == <<":", ":">>

App_A == <<"/", "b", "i", "n", "/", "A">>

App_B == <<"/", "b", "i", "n", "/", "B">>

Arg_x == <<"x">>

\* sprintf(s, "%d", n)
RECURSIVE Sprintf_d(_)
Sprintf_d(n) ==
  IF n < 0 THEN <<"-">> \o Sprintf_d(-n)
  ELSE IF n < 10 THEN <<DigitChar(n)>>
  ELSE Sprintf_d(n \div 10) \o <<DigitChar(n % 10)>>

\* argv of `intra.out 2 c0 c1 :: /bin/A x :: /bin/B ::`
LauncherArgv(c0, c1) ==
  <<<<"i", "n", "t", "r", "a", ".", "o", "u", "t">>, Sprintf_d(2),
    Sprintf_d(c0), Sprintf_d(c1), Separator, App_A, Arg_x, Separator, App_B,
    Separator>>

\* argv[i] and argc of a C argument vector
Arg(argv, i) == argv[i + 1]

Argc(argv) == Len(argv)

\* instance_counts[0 .. instance_entries-1], as a sequence
RECURSIVE InstanceCounts(_, _)
InstanceCounts(argv, n) ==
  IF n = 0 THEN <<>>
  ELSE Append(InstanceCounts(argv, n - 1), Atoi(Arg(argv, 2 + (n - 1))))

RECURSIVE SumOf(_)
SumOf(counts) == IF counts = <<>> THEN 0 ELSE Head(counts) + SumOf(Tail(counts))

\* A sort that leaves the array as pidof printed it.
Qsort_AsPolled(pids) == pids

\* compare(a, b) of qsort
compare(a, b) == a - b

RECURSIVE InsertSorted(_, _)
InsertSorted(sorted, x) ==
  IF sorted = <<>> THEN <<x>>
  ELSE IF compare(x, Head(sorted)) < 0 THEN <<x>> \o sorted
  ELSE <<Head(sorted)>> \o InsertSorted(Tail(sorted), x)

\* qsort(pids, num_pids, sizeof(pid_t), compare)
RECURSIVE Qsort(_)
Qsort(pids) ==
  IF pids = <<>> THEN <<>>
  ELSE CHOOSE out \in {InsertSorted(rest, Head(pids)) :
                         rest \in {Qsort(Tail(pids))}} : TRUE

\* The loop that finds my_pid in pids: its index, -1 if it is not there.
MyPidIndex(pids, my_pid) ==
  IF \E i \in 1 .. Len(pids) : pids[i] = my_pid
  THEN (CHOOSE i \in 1 .. Len(pids) :
          pids[i] = my_pid /\ \A j \in 1 .. i - 1 : pids[j] # my_pid) - 1
  ELSE -1

\* The loop that determines my_app_num, from its iteration i on.
RECURSIVE MyAppNum(_, _, _, _, _)
MyAppNum(counts, i, instances, my_pid_index, my_app_num) ==
  IF i >= Len(counts) THEN my_app_num
  ELSE LET upto == instances + counts[i + 1] IN
       IF my_pid_index < upto THEN my_app_num
       ELSE MyAppNum(counts, i + 1, upto, my_pid_index, my_app_num + 1)

\* The inner loop without its test for "::": the slice runs to the end of
\* the command line.
AppArgvEnd_ToArgc(argv, j) == Argc(argv)

\* The inner loop: the index of the next "::" from j on, argc if none.
RECURSIVE AppArgvEnd(_, _)
AppArgvEnd(argv, j) ==
  IF j >= Argc(argv) \/ Arg(argv, j) = Separator THEN j
  ELSE AppArgvEnd(argv, j + 1)

\* The outer loop from its iteration i on: app_argv_start and app_argv_end.
RECURSIVE AppArgv(_, _, _, _)
AppArgv(argv, i, app_num, my_app_num) ==
  IF i >= Argc(argv) THEN [start |-> -1, end |-> -1]
  ELSE LET n == IF Arg(argv, i - 1) = Separator THEN app_num + 1 ELSE app_num IN
       IF n = my_app_num
       THEN [start |-> i, end |-> AppArgvEnd(argv, i + 1)]
       ELSE AppArgv(argv, i + 1, n, my_app_num)

\* What a launcher instance computes between its last poll and its fork.
Select(argv, instance_entries, counts, pids, my_pid) ==
  LET my_pid_index == MyPidIndex(Qsort(pids), my_pid)
      my_app_num == MyAppNum(counts, 0, 0, my_pid_index, 0)
      slice == AppArgv(argv, 1 + instance_entries + 1 + 1, -1, my_app_num)
  IN [my_pid_index |-> my_pid_index, my_app_num |-> my_app_num,
      app_argv_start |-> slice.start, app_argv_end |-> slice.end]

\* The programs execv finds.
Programs == {App_A, App_B}

\* The status waitpid stores for a child that ended this way: the exit code
\* in bits 8 to 15, the number of a killing signal in the low bits.
WaitStatus(term) ==
  IF term.kind = "exit" THEN (term.code % 256) * 256 ELSE term.code

\* The PID fork gives a child: one that is free, here one beyond the PIDs of
\* all launcher instances, above them or (the PIDs having wrapped) below.
ForkedPid(pid, where) ==
  IF where = "above" THEN pid + MaxInstances ELSE pid - MaxInstances

\* The PID of the launcher instance of rank r: the ranks get consecutive
\* PIDs, rotated by k (k = 0: in rank order; k = n-1: rank 0 has the highest).
FirstPid == 100

PidOf(r, k, n) == FirstPid + ((r + k) % n)

\* What `pidof intra.out` prints: the PIDs of the live launcher instances,
\* the highest first.
RECURSIVE Descending(_)
Descending(S) ==
  IF S = {} THEN <<>>
  ELSE LET x == CHOOSE y \in S : \A z \in S : z <= y
       IN <<x>> \o Descending(S \ {x})

NoChild == [pc |-> "none", path |-> <<>>, argv |-> <<>>, out |-> <<>>]

\* A launcher instance before the job launcher has started it.
\*   pc      "absent", "poll" (in the poll loop), "wait" (at or after the
\*           fork, up to the return of waitpid), "done"
\*   child   the forked child: "forked" until its execv, then "execed" with
\*           what it exec'ed, or "exited" after a failed execv; out is
\*           what it has written to stdout
\*   waits   the calls of waitpid
\*   term    how the instance ended
NewInstance(pid) ==
  [pid |-> pid, pc |-> "absent", instance_entries |-> 0,
   instance_counts |-> <<>>, instance_count |-> 0, num_pids |-> 0, pids |-> <<>>,
   my_pid_index |-> -1, my_app_num |-> 0, app_argv_start |-> -1,
   app_argv_end |-> -1, forks |-> 0, child_pid |-> 0, child |-> NoChild,
   child_status |-> 0, waits |-> 0, ret |-> 0, term |-> NotTerminated]

\* The environment of the launcher instances, which a forked child inherits:
\* that of the job, with the library named by WRAPRUN_PRELOAD and not yet
\* preloaded.
LauncherEnvironment(more) ==
  (Environment({}) \ {<<LD_PRELOAD, <<"l", "i", "b", "s", "p", "l", "i", "t">>>>})
    \cup {<<WRAPRUN_PRELOAD, <<"l", "i", "b", "s", "p", "l", "i", "t">>>>} \cup more

\* The job may set W_ENV_RANK itself.
LauncherEnvironments ==
  {LauncherEnvironment({}), LauncherEnvironment({<<W_ENV_RANK, <<"1">>>>})}

Instances == 0 .. MaxInstances - 1

\* The launcher instances of a node whose applications run the library:
\* MaxLaunched of them, started with counts that add up to their number.
MaxLaunched == 2

InitIntra ==
  /\ world = 0 .. MaxLaunched - 1
  /\ file = [exists |-> TRUE, lines |-> <<ColorLine(0), ColorLine(1)>>]
  /\ \E c0 \in 0 .. MaxLaunched, k \in {0, MaxLaunched - 1},
        env \in LauncherEnvironments :
       wrapper = [kind |-> "intra", environ |-> env,
                  argv |-> LauncherArgv(c0, MaxLaunched - c0),
                  childPids |-> "above", forkFails |-> {},
                  inst |-> [r \in 0 .. MaxLaunched - 1 |->
                              NewInstance(PidOf(r, k, MaxLaunched))]]
  /\ proc = [r \in 0 .. MaxLaunched - 1 |->
               [NewProcess({}) EXCEPT !.pc = "unborn"]]
  /\ faults = 0
  /\ app = [barriers |-> 0]
  /\ call = NoCall

\* The count loop reads argv[1] and argv[2 .. 1+instance_entries] without
\* looking at argc: past the last argument it hands atoi the null pointer
\* that ends argv.
ReadsPastArgv(argv) ==
  Argc(argv) < 2 \/ 1 + Atoi(Arg(argv, 1)) >= Argc(argv)

\* The job launcher starts the launcher instance of rank r, which runs main
\* up to the poll loop.
IntraStart(r) ==
  /\ wrapper.inst[r].pc = "absent"
  /\ IF ReadsPastArgv(wrapper.argv)
     THEN wrapper' = [wrapper EXCEPT
                        !.inst[r].pc = "done",
                        !.inst[r].term = [kind |-> "signal", code |-> SIGSEGV]]
     ELSE \E instance_entries \in {Atoi(Arg(wrapper.argv, 1))} :
          \E counts \in {InstanceCounts(wrapper.argv, instance_entries)} :
            wrapper' = [wrapper EXCEPT
                          !.inst[r].pc = "poll",
                          !.inst[r].instance_entries = instance_entries,
                          !.inst[r].instance_counts = counts,
                          !.inst[r].instance_count = SumOf(counts)]
  /\ UNCHANGED <<world, file, proc, faults, app, call>>

\* The PIDs `pidof intra.out` shows: the processes that run the launcher's
\* image, which are the instances that have not ended and the children that
\* have forked and not yet exec'ed.
VisiblePids ==
  {wrapper.inst[q].pid : q \in {o \in world : wrapper.inst[o].pc \in {"poll", "wait"}}}
    \cup {wrapper.inst[q].child_pid :
            q \in {o \in world : wrapper.inst[o].child.pc = "forked"}}

\* The loop test made always false: the first poll ends the loop.
KeepsPolling_Never(num_pids, instance_count) == FALSE

\* while(num_pids < instance_count)
KeepsPolling(num_pids, instance_count) == num_pids < instance_count

\* Main of the instance `me` from the end of its last poll to the fork,
\* which returns child_pid: -1 when it fails.
SelectAndFork(me, argv, child_pid) ==
  LET sel == Select(argv, me.instance_entries, me.instance_counts, me.pids, me.pid) IN
  [me EXCEPT !.pc = "wait", !.pids = Qsort(me.pids),
             !.my_pid_index = sel.my_pid_index,
             !.my_app_num = sel.my_app_num,
             !.app_argv_start = sel.app_argv_start,
             !.app_argv_end = sel.app_argv_end,
             !.forks = @ + 1,
             !.child_pid = child_pid,
             !.child = IF child_pid = -1 THEN NoChild
                       ELSE [NoChild EXCEPT !.pc = "forked"]]

\* One round of the poll loop of instance r and, if it was the last, main up
\* to the fork.
IntraPoll(r) ==
  /\ wrapper.inst[r].pc = "poll"
  /\ \E pids \in {Descending(VisiblePids)} :
       LET polled == [wrapper.inst[r] EXCEPT !.pids = pids, !.num_pids = Len(pids)]
           child_pid == IF r \in wrapper.forkFails THEN -1
                        ELSE ForkedPid(polled.pid, wrapper.childPids)
       IN wrapper' = [wrapper EXCEPT !.inst[r] =
                        IF KeepsPolling(polled.num_pids, polled.instance_count)
                        THEN wrapper.inst[r]
                        ELSE SelectAndFork(polled, wrapper.argv, child_pid)]
  /\ UNCHANGED <<world, file, proc, faults, app, call>>

\* The child of instance r: the two setenv calls and execv, and after a
\* failed execv the printf of "Failed execv" and exit(1).  An instance that
\* found no application has app_argv_start = -1: what precedes argv is no
\* path, and execv fails.
IntraChild(r) ==
  LET me == wrapper.inst[r]
      env == Setenv(Setenv(wrapper.environ, LD_PRELOAD,
                           Getenv(wrapper.environ, WRAPRUN_PRELOAD)),
                    W_RANK_FROM_ENV, Sprintf_d(me.my_app_num))
      path == IF me.app_argv_start < 0 THEN <<>>
              ELSE Arg(wrapper.argv, me.app_argv_start)
      args == SubSeq(wrapper.argv, me.app_argv_start + 1, me.app_argv_end)
  IN /\ me.pc = "wait"
     /\ me.child.pc = "forked"
     /\ IF path \in Programs
        THEN /\ wrapper' = [wrapper EXCEPT !.inst[r].child =
                              [pc |-> "execed", path |-> path, argv |-> args,
                               out |-> <<>>]]
             /\ proc' = [proc EXCEPT ![r] = NewProcess(env)]
        ELSE /\ wrapper' = [wrapper EXCEPT !.inst[r].child =
                              [pc |-> "exited", path |-> <<>>, argv |-> <<>>,
                               out |-> <<"Failed execv">>]]
             /\ proc' = [proc EXCEPT ![r] = ExitNow(NewProcess(env), 1)]
     /\ UNCHANGED <<world, file, faults, app, call>>

\* waitpid returns to instance r, and main returns child_status.  After a
\* failed fork waitpid(-1, ...) finds no child and child_status is never
\* written.
IntraWait(r) ==
  /\ wrapper.inst[r].pc = "wait"
  /\ \/ wrapper.inst[r].child_pid = -1
     \/ wrapper.inst[r].child.pc \in {"execed", "exited"} /\ proc[r].pc = "done"
  /\ \E garbage \in StackInts :
     \E child_status \in {IF wrapper.inst[r].child_pid = -1 THEN garbage
                          ELSE WaitStatus(proc[r].term)} :
       wrapper' = [wrapper EXCEPT
                     !.inst[r].pc = "done",
                     !.inst[r].waits = @ + 1,
                     !.inst[r].child_status = child_status,
                     !.inst[r].ret = child_status,
                     !.inst[r].term = [kind |-> "exit",
                                       code |-> ExitStatus(child_status)]]
  /\ UNCHANGED <<world, file, proc, faults, app, call>>

NextIntra ==
  \/ \E r \in world : IntraStart(r)
  \/ \E r \in world : IntraPoll(r)
  \/ \E r \in world : IntraChild(r)
  \/ \E r \in world : AppInit(r)
  \/ \E r \in world : SplitReturn(r)
  \/ \E r \in world : AppFinalize(r)
  \/ \E r \in world : FinalizeReturn(r)
  \/ \E r \in world : AppReturn(r)
  \/ \E r \in world : IntraWait(r)

SpecIntra == InitIntra /\ [][NextIntra]_vars

(***************************************************************************)
(* C13: the application a launcher instance selects                        *)
(***************************************************************************)
\* The counts of the command line, count_0 .. count_(N-1), as written.
CountOf(i) == Atoi(Arg(wrapper.argv, 2 + i))

NumApps == Atoi(Arg(wrapper.argv, 1))

\* count_0 + ... + count_i
RECURSIVE Cumulative(_)
Cumulative(i) == IF i < 0 THEN 0 ELSE CountOf(i) + Cumulative(i - 1)

\* The instance has left the poll loop and selected its application.
HasSelected(r) == wrapper.inst[r].forks > 0

\* The last poll of the instance listed the launcher instances of the node
\* and nothing else.
SawLaunchers(r) ==
  /\ wrapper.inst[r].num_pids = Cumulative(NumApps - 1)
  /\ {wrapper.inst[r].pids[i] : i \in 1 .. wrapper.inst[r].num_pids}
       = {wrapper.inst[q].pid : q \in world}

\* The position of the instance in the ascending order of the launcher PIDs.
PositionOf(r) ==
  Cardinality({q \in world : wrapper.inst[q].pid < wrapper.inst[r].pid})

\* The smallest i with p < count_0 + ... + count_i.
SmallestIndex(p) ==
  CHOOSE i \in 0 .. NumApps - 1 :
    p < Cumulative(i) /\ \A j \in 0 .. i - 1 : ~(p < Cumulative(j))

\* C13: an instance that saw exactly the sum(count_i) launcher PIDs selects
\* the smallest i with p < count_0 + ... + count_i, p its position in the
\* ascending PID order; once all have selected, count_i of them have
\* selected application i.
C13_SelectsByCumulativeCount ==
  /\ \A r \in world :
       (HasSelected(r) /\ SawLaunchers(r))
         => wrapper.inst[r].my_app_num = SmallestIndex(PositionOf(r))
  /\ (\A r \in world : HasSelected(r) /\ SawLaunchers(r)) =>
       \A i \in 0 .. NumApps - 1 :
         Cardinality({r \in world : wrapper.inst[r].my_app_num = i}) = CountOf(i)

\* Counts 2,1: the two lowest PIDs have selected application 0, the highest
\* application 1, and the PIDs are not in rank order.
C13_Witness ==
  /\ \A r \in world : HasSelected(r) /\ SawLaunchers(r)
  /\ CountOf(0) = 2 /\ CountOf(1) = 1
  /\ wrapper.inst[0].pid > wrapper.inst[1].pid
  /\ \A r \in world :
       wrapper.inst[r].my_app_num = (IF PositionOf(r) < 2 THEN 0 ELSE 1)

(***************************************************************************)
(* C14: the identity the launcher hands to the library                     *)
(***************************************************************************)
\* The application the launcher child of rank r exec'ed has called its init.
LaunchedAppInInit(r) ==
  /\ wrapper.inst[r].child.pc = "execed"
  /\ proc[r].initReals # <<>>

\* C14: the init of an application exec'ed by the launcher looks up the
\* configuration line whose index is the application index the launcher
\* computed; without W_RANK_FROM_ENV it looks up the line of the world rank.
C14_InitReadsLauncherIndex ==
  \A r \in world :
    LaunchedAppInInit(r) =>
      IF HasEnv(proc[r].environ, W_RANK_FROM_ENV)
      THEN proc[r].lineRead = wrapper.inst[r].my_app_num
      ELSE proc[r].lineRead = r

\* What the two programs do together: the launcher stores the index in
\* W_RANK_FROM_ENV, the library reads W_ENV_RANK, which only the job can have
\* set; where it is unset the init ends in a segmentation fault.
LibraryReadsEnvRank ==
  \A r \in world :
    LaunchedAppInInit(r) =>
      /\ Getenv(proc[r].environ, W_RANK_FROM_ENV) = Sprintf_d(wrapper.inst[r].my_app_num)
      /\ IF HasEnv(proc[r].environ, W_ENV_RANK)
         THEN proc[r].lineRead = Atoi(Getenv(proc[r].environ, W_ENV_RANK))
         ELSE proc[r].term = [kind |-> "signal", code |-> SIGSEGV]

(***************************************************************************)
(* C15: the shadowed init entry points                                     *)
(***************************************************************************)
RealInits ==
  {"PMPI_Init", "PMPI_Init_thread", "RTLD_NEXT MPI_Init",
   "RTLD_NEXT MPI_Init_thread"}

\* The real init the shadow of `entry` is to reach in this environment.
ExpectedRealInit(entry, environ) ==
  IF HasEnv(environ, W_UNWRAP_INIT)
  THEN (IF entry = "MPI_Init" THEN "RTLD_NEXT MPI_Init"
        ELSE "RTLD_NEXT MPI_Init_thread")
  ELSE (IF entry = "MPI_Init" THEN "PMPI_Init" ELSE "PMPI_Init_thread")

\* The calls of the log that are real inits.
RealInitsOf(log) == SelectSeq(log, LAMBDA made : made \in RealInits)

\* C15: a shadowed init, basic or threaded, calls one real init once (the
\* next definition in load order under W_UNWRAP_INIT, else the profiling
\* twin), and when it returns to its caller it returns what the real init
\* returned.
C15_InitCallsOneRealInit ==
  \A r \in world :
    proc[r].initEntry # "" =>
      /\ RealInitsOf(proc[r].log) =
           <<ExpectedRealInit(proc[r].initEntry, proc[r].environ)>>
      /\ Len(proc[r].initReals) = 1
      /\ proc[r].inited => proc[r].initRets = proc[r].initReals
      /\ ~proc[r].inited => proc[r].initRets = <<>>

\* MPI_Init_thread under W_UNWRAP_INIT has returned the error of the real init.
C15_Witness ==
  \E r \in world :
    /\ proc[r].inited
    /\ proc[r].initEntry = "MPI_Init_thread"
    /\ HasEnv(proc[r].environ, W_UNWRAP_INIT)
    /\ proc[r].initRets = <<MPI_ERR_ARG>>

(***************************************************************************)
(* serial_wrapper.c: an MPI process that forks a serial program            *)
(***************************************************************************)
Serial_wrapper ==
  <<"s", "e", "r", "i", "a", "l", "_", "w", "r", "a", "p", "p", "e", "r">>

\* A path at which there is no program.
App_missing == <<"/", "n", "o", "n", "e">>

\* The command lines of the wrapper: no program, /bin/A alone, /bin/A x,
\* /bin/B x x, and a program that does not exist.
SerialArgvs ==
  {<<Serial_wrapper>>, <<Serial_wrapper, App_A>>, <<Serial_wrapper, App_A, Arg_x>>,
   <<Serial_wrapper, App_B, Arg_x, Arg_x>>, <<Serial_wrapper, App_missing, Arg_x>>}

\* A vector that hands the child the wrapper's own argv.
new_argv_Whole(argv) == argv

\* char **new_argv = &argv[1]
new_argv(argv) == Tail(argv)

\* The wrapper of one rank before main runs.  `calls` are the calls main has
\* made, in order.
NewSerial ==
  [pc |-> "start", calls |-> <<>>, forks |-> 0, child_pid |-> 0,
   child |-> NoChild, child_exit |-> NotTerminated, child_status |-> 0, ret |-> 0]

Called(w, what) == [w EXCEPT !.calls = Append(@, what)]

InitSerial ==
  /\ world = {0, 1}
  /\ file = [exists |-> TRUE, lines |-> <<ColorLine(0), ColorLine(1)>>]
  /\ \E argv \in SerialArgvs, flags \in {{}, {W_REDIRECT_OUTERR}} :
       /\ wrapper = [kind |-> "serial", argv |-> argv,
                     inst |-> [r \in {0, 1} |-> NewSerial]]
       /\ proc = [r \in {0, 1} |-> NewProcess(Environment(flags))]
  /\ faults = 0
  /\ app = [barriers |-> 0]
  /\ call = NoCall

\* main of the wrapper of rank r, up to the split inside MPI_Init.
SerialInit(r) ==
  /\ wrapper.inst[r].pc = "start"
  /\ IF Argc(wrapper.argv) < 2
     THEN /\ proc' = [proc EXCEPT ![r] =
                        EXIT_PRINT(proc[r], "Please provide executalbe!")]
          /\ wrapper' = [wrapper EXCEPT !.inst[r].pc = "done"]
     ELSE /\ \E garbage \in StackInts :
               proc' = [proc EXCEPT ![r] =
                          MPI_Init([proc[r] EXCEPT !.environ =
                                      Setenv(@, W_UNSET_PRELOAD, <<"1">>)],
                                   r, garbage, file, MPI_SUCCESS)]
          /\ wrapper' = [wrapper EXCEPT !.inst[r] =
                           [Called(Called(@, "setenv"), "MPI_Init")
                              EXCEPT !.pc = "init"]]
  /\ UNCHANGED <<world, file, faults, app, call>>

\* MPI_Init has returned to the wrapper of rank r, which forks; fork may fail.
SerialFork(r) ==
  /\ wrapper.inst[r].pc = "init"
  /\ proc[r].pc = "running"
  /\ \E child_pid \in {-1, 1} :
       wrapper' = [wrapper EXCEPT !.inst[r] =
                     [Called(@, "fork") EXCEPT
                        !.pc = "wait", !.forks = @ + 1, !.child_pid = child_pid,
                        !.child = IF child_pid = -1 THEN NoChild
                                  ELSE [NoChild EXCEPT !.pc = "forked"]]]
  /\ UNCHANGED <<world, file, proc, faults, app, call>>

\* The child of the wrapper of rank r: execv(argv[1], new_argv).
SerialChild(r) ==
  /\ wrapper.inst[r].child.pc = "forked"
  /\ wrapper' = [wrapper EXCEPT !.inst[r] =
                   IF Arg(wrapper.argv, 1) \in Programs
                   THEN [@ EXCEPT !.child = [pc |-> "execed",
                                            path |-> Arg(wrapper.argv, 1),
                                            argv |-> new_argv(wrapper.argv)]]
                   ELSE [@ EXCEPT !.child.pc = "exited",
                                  !.child_exit = [kind |-> "exit",
                                                  code |-> EXIT_FAILURE]]]
  /\ UNCHANGED <<world, file, proc, faults, app, call>>

\* The program the child has become ends with some code.
SerialChildEnd(r) ==
  /\ wrapper.inst[r].child.pc = "execed"
  /\ \E code \in ExitCodes :
       wrapper' = [wrapper EXCEPT !.inst[r].child.pc = "exited",
                                  !.inst[r].child_exit =
                                     [kind |-> "exit", code |-> code]]
  /\ UNCHANGED <<world, file, proc, faults, app, call>>

\* waitpid returns to the wrapper of rank r, which calls MPI_Finalize.  After
\* a failed fork there is no child to wait for and child_status is never
\* written.
SerialWait(r) ==
  /\ wrapper.inst[r].pc = "wait"
  /\ wrapper.inst[r].child_pid = -1 \/ wrapper.inst[r].child.pc = "exited"
  /\ \E garbage \in StackInts :
       wrapper' = [wrapper EXCEPT !.inst[r] =
                     [Called(Called(@, "waitpid"), "MPI_Finalize") EXCEPT
                        !.pc = "finalize",
                        !.child_status =
                           IF wrapper.inst[r].child_pid = -1 THEN garbage
                           ELSE WaitStatus(wrapper.inst[r].child_exit)]]
  /\ proc' = [proc EXCEPT ![r] = MPI_Finalize(proc[r], "main")]
  /\ UNCHANGED <<world, file, faults, app, call>>

\* MPI_Finalize has returned to the wrapper of rank r: return child_status.
SerialReturn(r) ==
  /\ wrapper.inst[r].pc = "finalize"
  /\ proc[r].pc = "finalized"
  /\ wrapper' = [wrapper EXCEPT !.inst[r].pc = "done",
                                !.inst[r].ret = wrapper.inst[r].child_status]
  /\ proc' = [proc EXCEPT ![r] = Exit(proc[r], wrapper.inst[r].child_status)]
  /\ UNCHANGED <<world, file, faults, app, call>>

NextSerial ==
  \/ \E r \in world : SerialInit(r)
  \/ \E r \in world : SplitReturn(r)
  \/ \E r \in world : SerialFork(r)
  \/ \E r \in world : SerialChild(r)
  \/ \E r \in world : SerialChildEnd(r)
  \/ \E r \in world : SerialWait(r)
  \/ \E r \in world : FinalizeReturn(r)
  \/ \E r \in world : SerialReturn(r)

SpecSerial == InitSerial /\ [][NextSerial]_vars

(***************************************************************************)
(* C16: the order of the serial wrapper                                    *)
(***************************************************************************)
IsPrefix(s, t) == Len(s) <= Len(t) /\ s = SubSeq(t, 1, Len(s))

SerialOrder == <<"setenv", "MPI_Init", "fork", "waitpid", "MPI_Finalize">>

\* C16: the serial wrapper sets W_UNSET_PRELOAD before it calls MPI_Init,
\* forks once, after MPI_Init has returned; the child execs the program its
\* first argument names with the arguments from the first on; the parent
\* calls MPI_Finalize only after waitpid has returned.
C16_SerialWrapperOrder ==
  \A r \in world :
    LET w == wrapper.inst[r] IN
    /\ IsPrefix(w.calls, SerialOrder)
    /\ proc[r].initReals # <<>> => HasEnv(proc[r].environ, W_UNSET_PRELOAD)
    /\ w.forks <= 1
    /\ w.forks = 1 => proc[r].inited
    /\ w.child.pc = "execed" =>
         /\ w.child.path = wrapper.argv[2]
         /\ w.child.argv = SubSeq(wrapper.argv, 2, Len(wrapper.argv))
    /\ proc[r].finalizeVia # "" =>
         /\ w.forks = 1
         /\ w.child_pid # -1 => w.child.pc = "exited"

\* A wrapper has returned after its child ran /bin/B x x to its end.
C16_Witness ==
  \E r \in world :
    /\ wrapper.inst[r].pc = "done"
    /\ wrapper.inst[r].calls = SerialOrder
    /\ wrapper.inst[r].child.pc = "exited"
    /\ wrapper.inst[r].child.argv = <<App_B, Arg_x, Arg_x>>
    /\ proc[r].mpiFinalized

(***************************************************************************)
(* C17: LD_PRELOAD and the real init                                       *)
(***************************************************************************)
\* The shadowed init has been entered with W_UNSET_PRELOAD set.
InitUnderUnsetPreload(r) ==
  proc[r].initEntry # "" /\ HasEnv(proc[r].environ, W_UNSET_PRELOAD)

\* C17: with W_UNSET_PRELOAD set, the real init does not run with LD_PRELOAD
\* in the environment: the variable is removed before the real init is
\* called.
C17_PreloadRemovedBeforeRealInit ==
  \A r \in world :
    InitUnderUnsetPreload(r) =>
      /\ ~proc[r].initPreload
      /\ \E i, j \in 1 .. Len(proc[r].log) :
           i < j /\ proc[r].log[i] = "unsetenv" /\ proc[r].log[j] \in RealInits

\* C17 (amended): with W_UNSET_PRELOAD set, the real init runs first, with
\* LD_PRELOAD as the process was started; the variable is removed right after
\* the real init has returned, before the configuration is read and before
\* the split, and stays removed.  Without the flag it is never removed.
C17_PreloadRemovedAfterRealInit ==
  \A r \in world :
    proc[r].initEntry # "" =>
      IF HasEnv(proc[r].environ, W_UNSET_PRELOAD)
      THEN /\ proc[r].initPreload
           /\ Len(proc[r].log) >= 2
           /\ proc[r].log[1] \in RealInits
           /\ proc[r].log[2] = "unsetenv"
           /\ CountIn(proc[r].log, {"unsetenv"}) = 1
           /\ ~HasEnv(proc[r].environ, LD_PRELOAD)
      ELSE /\ CountIn(proc[r].log, {"unsetenv"}) = 0
           /\ HasEnv(proc[r].environ, LD_PRELOAD)

\* An init under W_UNSET_PRELOAD has returned: the real init saw LD_PRELOAD,
\* the application does not.
C17_Witness ==
  \E r \in world :
    /\ InitUnderUnsetPreload(r)
    /\ proc[r].inited
    /\ proc[r].initPreload
    /\ ~HasEnv(proc[r].environ, LD_PRELOAD)

(***************************************************************************)
(* C18: the order of the process mutations of init                         *)
(***************************************************************************)
Mutations ==
  {"PMPI_Comm_split", "chdir", "freopen", "SetEnvironmentVaribles", "setenv"}

\* The mutations of the log, in the order they were made.
MutationsOf(log) == SelectSeq(log, LAMBDA made : made \in Mutations)

\* The mutations of a whole init in this environment, a line without
\* environment string: the split, the chdir, the two freopen calls if
\* W_REDIRECT_OUTERR is set, the environment step.
InitOrder(environ) ==
  <<"PMPI_Comm_split", "chdir">>
    \o (IF HasEnv(environ, W_REDIRECT_OUTERR) THEN <<"freopen", "freopen">> ELSE <<>>)
    \o <<"SetEnvironmentVaribles">>

\* Every setenv of the log comes after the environment step has begun.
RECURSIVE FirstIndex(_, _, _)
FirstIndex(log, what, i) ==
  IF i > Len(log) THEN 0
  ELSE IF log[i] = what THEN i ELSE FirstIndex(log, what, i + 1)

\* C18: init makes its mutations in this order: the split communicator, the
\* change of directory, the reopening of stdout and stderr (only under
\* W_REDIRECT_OUTERR), the environment assignments.  The redirected files
\* are opened after the chdir, in the work directory, and no assignment is
\* made before the redirect.
C18_InitMutationOrder ==
  \A r \in world :
    LET made == MutationsOf(proc[r].log)
        steps == SelectSeq(made, LAMBDA m : m # "setenv")
    IN /\ IsPrefix(steps, InitOrder(proc[r].environ))
       /\ \A i \in 1 .. Len(made) :
            made[i] = "setenv" =>
              /\ FirstIndex(made, "SetEnvironmentVaribles", 1) \in 1 .. i - 1
              /\ \A j \in i + 1 .. Len(made) : made[j] # "freopen"
       /\ proc[r].stdout.kind = "file" =>
            /\ proc[r].cwd = proc[r].work_dir
            /\ proc[r].stdout.dir = proc[r].work_dir
            /\ proc[r].stderr.dir = proc[r].work_dir
       /\ proc[r].inited => steps = InitOrder(proc[r].environ)

\* An init under W_REDIRECT_OUTERR has returned: split, chdir to /a, both
\* streams reopened in /a, environment step.
C18_Witness ==
  \E r \in world :
    /\ proc[r].inited
    /\ HasEnv(proc[r].environ, W_REDIRECT_OUTERR)
    /\ proc[r].stdout.kind = "file"
    /\ proc[r].stdout.dir = Dir_a
    /\ MutationsOf(proc[r].log) =
         <<"PMPI_Comm_split", "chdir", "freopen", "freopen", "SetEnvironmentVaribles">>

(***************************************************************************)
(* C19: the place of the split among the steps of init                     *)
(***************************************************************************)
ShaperCalls == {"chdir", "freopen", "SetEnvironmentVaribles", "setenv"}

Step5Calls ==
  {"GetRankParamsFromFile", "signal SIGSEGV", "signal SIGABRT", "atexit"}
    \cup Mutations

\* The registrations SplitInit makes in this environment, in program order.
Registrations(environ) ==
  (IF HasEnv(environ, W_IGNORE_SEGV) THEN <<"signal SIGSEGV">> ELSE <<>>)
    \o (IF HasEnv(environ, W_IGNORE_ABRT) THEN <<"signal SIGABRT">> ELSE <<>>)
    \o (IF HasEnv(environ, W_IGNORE_RETURN_CODE) THEN <<"atexit">> ELSE <<>>)

\* C19: init reads the configuration, installs the signal handlers, runs the
\* directory, redirect and environment steps, and only then splits the world:
\* the split is the last of these operations.
C19_SplitIsLast ==
  \A r \in world :
    \A i, j \in 1 .. Len(proc[r].log) :
      (proc[r].log[i] = "PMPI_Comm_split" /\ i < j) =>
        proc[r].log[j] \notin ShaperCalls

\* C19 (amended): init reads the configuration, installs the signal handlers
\* and the exit hook, then splits the world (the color of the line as
\* partition key, key 0) and stores the handle in MPI_COMM_SPLIT, and only
\* then runs the directory, redirect and environment steps: the split is the
\* first of the mutations, not the last.
C19_SplitBeforeShaping ==
  \A r \in world :
    LET steps == SelectSeq(proc[r].log,
                           LAMBDA made : made \in Step5Calls /\ made # "setenv")
    IN /\ IsPrefix(steps, <<"GetRankParamsFromFile">>
                            \o Registrations(proc[r].environ)
                            \o InitOrder(proc[r].environ))
       /\ proc[r].splitEntered =>
            /\ proc[r].color = ConfiguredColor(r)
            /\ proc[r].splitKey = 0
       /\ proc[r].inited =>
            /\ proc[r].MPI_COMM_SPLIT = PMPI_Comm_split_newcomm(ConfiguredColor(r))
               \/ proc[r].finalizeVia # ""
            /\ steps = <<"GetRankParamsFromFile">>
                         \o Registrations(proc[r].environ)
                         \o InitOrder(proc[r].environ)

\* An init under W_IGNORE_SEGV and W_REDIRECT_OUTERR has returned: the
\* handler was registered before the split, the directory, the streams and
\* the environment step came after it.
C19_Witness ==
  \E r \in world :
    /\ proc[r].inited
    /\ proc[r].MPI_COMM_SPLIT = PMPI_Comm_split_newcomm(ConfiguredColor(r))
    /\ SelectSeq(proc[r].log, LAMBDA made : made \in Step5Calls) =
         <<"GetRankParamsFromFile", "signal SIGSEGV", "PMPI_Comm_split", "chdir",
           "freopen", "freopen", "SetEnvironmentVaribles">>

(***************************************************************************)
(* C20: the order of the shadowed finalize                                 *)
(***************************************************************************)
FinalizeCalls == {"PMPI_Comm_free", "fclose"} \cup RealFinalizes

FinalizeCallsOf(log) == SelectSeq(log, LAMBDA made : made \in FinalizeCalls)

\* What the first call of the shadowed finalize makes, the split communicator
\* installed: the free, the underlying finalize, the close under
\* W_REDIRECT_OUTERR.
FirstFinalize(environ) ==
  <<"PMPI_Comm_free",
    IF HasEnv(environ, W_UNWRAP_FINALIZE) THEN "RTLD_NEXT MPI_Finalize"
    ELSE "PMPI_Finalize">>
    \o (IF HasEnv(environ, W_REDIRECT_OUTERR) THEN <<"fclose">> ELSE <<>>)

\* What a later call makes, the communicator freed and the runtime finalized.
LaterFinalize(environ) ==
  IF HasEnv(environ, W_REDIRECT_OUTERR) THEN <<"fclose">> ELSE <<>>

RECURSIVE Repeat(_, _)
Repeat(s, n) == IF n = 0 THEN <<>> ELSE s \o Repeat(s, n - 1)

\* C20: the shadowed finalize frees the split communicator and sets it to
\* MPI_COMM_NULL if and only if it is not MPI_COMM_NULL, then calls the
\* underlying finalize (the next definition in load order under
\* W_UNWRAP_FINALIZE, else PMPI_Finalize) if and only if the runtime is not
\* finalized, then closes the redirected streams under W_REDIRECT_OUTERR,
\* and returns the status of the underlying finalize (0 when it made no call).
C20_FinalizeOrder ==
  \A r \in world :
    LET p == proc[r]
        made == FinalizeCallsOf(p.log)
        returned == Len(p.finalizeRets)
    IN p.inited =>
         /\ IsPrefix(made, FirstFinalize(p.environ)
                             \o Repeat(LaterFinalize(p.environ), returned))
         /\ p.finalizeVia # "" => p.MPI_COMM_SPLIT = MPI_COMM_NULL
         /\ p.mpiFinalized = (p.finalizeReals # <<>>)
         /\ returned >= 1 =>
              /\ made = FirstFinalize(p.environ)
                          \o Repeat(LaterFinalize(p.environ), returned - 1)
              /\ p.finalizeRets[1] = p.finalizeReals[1]
              /\ \A i \in 2 .. returned : p.finalizeRets[i] = 0
         /\ Len(p.finalizeReals) <= 1

\* A finalize under W_UNWRAP_FINALIZE and W_REDIRECT_OUTERR has returned the
\* error of the underlying finalize, the communicator freed, the streams
\* closed.
C20_Witness ==
  \E r \in world :
    /\ proc[r].inited
    /\ proc[r].finalizeRets = <<MPI_ERR_ARG>>
    /\ FinalizeCallsOf(proc[r].log) =
         <<"PMPI_Comm_free", "RTLD_NEXT MPI_Finalize", "fclose">>
    /\ proc[r].MPI_COMM_SPLIT = MPI_COMM_NULL
    /\ proc[r].stdout = Closed

(***************************************************************************)
(* Signals at any point after init: a job of two processes under every set *)
(* of the flags that choose the handlers, the exit hook and the redirect.  *)
(* A signal is raised by the code the process runs (a fault, abort()), the *)
(* runtime inside the underlying finalize included, or is sent from        *)
(* outside; the application may call MPI_Finalize again after it returned. *)
(***************************************************************************)
MaxSignals == 2

MaxFinalizes == 2

Signals == {SIGSEGV, SIGABRT}

SignalFlags ==
  {W_IGNORE_SEGV, W_IGNORE_ABRT, W_SIG_PAUSE, W_SIG_DFL,
   W_IGNORE_RETURN_CODE, W_REDIRECT_OUTERR}

\* What signal(sig, ...) last installed.
Disposition(p, sig) == IF sig = SIGSEGV THEN p.sigsegv ELSE p.sigabrt

\* The signal reaches the process: the default action, or its handler, which
\* runs with the signal blocked.
Handle(p, sig) ==
  LET q == [p EXCEPT !.blocked = @ \cup {sig}] IN
  IF Disposition(p, sig) = "SIG_DFL" THEN KilledBy(p, sig)
  ELSE IF sig = SIGSEGV THEN DeliverSegv([q EXCEPT !.segv = TRUE])
  ELSE DeliverAbrt([q EXCEPT !.abrt = TRUE])

\* A signal of the given origin: "raise" when the code the process runs
\* faults or calls abort(), "kill" when another process sends it.  A blocked
\* signal that is sent stays pending; a fault while SIGSEGV is blocked ends
\* the process; abort() unblocks SIGABRT before it raises it.
Deliver(p, sig, origin) ==
  IF sig \in p.blocked
  THEN CASE origin = "kill" -> [p EXCEPT !.pending = @ \cup {sig}]
         [] origin = "raise" /\ sig = SIGSEGV -> KilledBy(p, SIGSEGV)
         [] origin = "raise" /\ sig = SIGABRT -> Handle(p, SIGABRT)
  ELSE Handle(p, sig)

InitSignals ==
  /\ world = {0, 1}
  /\ file = [exists |-> TRUE, lines |-> <<ColorLine(0), ColorLine(1)>>]
  /\ \E flags \in SUBSET SignalFlags :
       proc = [r \in {0, 1} |-> NewProcess(Environment(flags))]
  /\ faults = 0
  /\ app = [barriers |-> 0]
  /\ call = NoCall
  /\ wrapper = NoWrapper

\* The code rank r runs raises a signal: the application after init, or the
\* runtime inside the underlying finalize.
Raise(r) ==
  /\ proc[r].pc \in {"running", "in_finalize", "finalized"}
  /\ faults < MaxSignals
  /\ \E sig \in Signals :
       proc' = [proc EXCEPT ![r] = Deliver(proc[r], sig, "raise")]
  /\ faults' = faults + 1
  /\ UNCHANGED <<world, file, app, call, wrapper>>

\* Another process sends rank r a signal.
Kill(r) ==
  /\ proc[r].pc \in {"running", "in_finalize", "finalized", "paused"}
  /\ faults < MaxSignals
  /\ \E sig \in Signals :
       proc' = [proc EXCEPT ![r] = Deliver(proc[r], sig, "kill")]
  /\ faults' = faults + 1
  /\ UNCHANGED <<world, file, app, call, wrapper>>

\* The application of rank r calls MPI_Finalize once more after it returned.
AppFinalizeAgain(r) ==
  /\ proc[r].pc = "finalized"
  /\ Len(proc[r].finalizeRets) < MaxFinalizes
  /\ proc' = [proc EXCEPT ![r] = MPI_Finalize(proc[r], "main")]
  /\ UNCHANGED <<world, file, faults, app, call, wrapper>>

NextSignals ==
  \/ \E r \in world : AppInit(r)
  \/ \E r \in world : SplitReturn(r)
  \/ \E r \in world : AppFinalize(r)
  \/ \E r \in world : FinalizeReturn(r)
  \/ \E r \in world : AppFinalizeAgain(r)
  \/ \E r \in world : AppReturn(r)
  \/ \E r \in world : Raise(r)
  \/ \E r \in world : Kill(r)
  \/ JobAbort

SpecSignals == InitSignals /\ [][NextSignals]_vars

(***************************************************************************)
(* C22: W_SIG_DFL                                                          *)
(***************************************************************************)
SegvDiagnostics == {"ERROR: Signal SEGV Received"}

\* A handler of the library has run for the signal in rank r.
HandlerRan(r, sig) ==
  \E i \in 1 .. Len(proc[r].stderrLog) :
    proc[r].stderrLog[i] \in
      (IF sig = SIGSEGV THEN SegvDiagnostics ELSE AbrtDiagnostics)

\* C22: with W_SIG_DFL set, once a handler of the library has run for a
\* signal, the disposition of that signal is the default one.
C22_HandledSignalIsReset ==
  \A r \in world : \A sig \in Signals :
    HandlerRan(r, sig) /\ HasEnv(proc[r].environ, W_SIG_DFL) =>
      Disposition(proc[r], sig) = "SIG_DFL"

\* What split.c does: only SegvHandler, the handler of SIGSEGV without
\* W_SIG_PAUSE, resets a disposition, and the one it resets is SIGSEGV's.
OnlySegvHandlerResets ==
  \A r \in world : \A sig \in Signals :
    HandlerRan(r, sig) =>
      Disposition(proc[r], sig) =
        IF sig = SIGABRT THEN "AbrtHandlerPause"
        ELSE IF HasEnv(proc[r].environ, W_SIG_PAUSE) THEN "SegvHandlerPause"
        ELSE IF HasEnv(proc[r].environ, W_SIG_DFL) THEN "SIG_DFL"
        ELSE "SegvHandler"

(***************************************************************************)
(* C21: a segmentation fault under W_IGNORE_SEGV and W_SIG_PAUSE           *)
(***************************************************************************)
\* SegvHandlerPause has run in rank r.
SegvPaused(r) ==
  /\ SIGSEGV \in proc[r].blocked
  /\ HasEnv(proc[r].environ, W_IGNORE_SEGV)
  /\ HasEnv(proc[r].environ, W_SIG_PAUSE)

\* The rank is in pause(), or was ended from outside: by the job launcher or
\* by a signal another process sent.
BlockedInPause(r) ==
  \/ proc[r].pc = "paused"
  \/ proc[r].pc = "done" /\ proc[r].term.kind \in {"aborted", "signal"}

\* In this step the rank makes no library call, MPI_Finalize included, and
\* does not exit.
StaysPaused(r) ==
  /\ proc'[r].log = proc[r].log
  /\ proc'[r].finalizeVia = proc[r].finalizeVia
  /\ proc'[r].term.kind # "exit"

\* From the handler on the rank blocks: no library call, no exit.
SegvPauseBlocksForever ==
  /\ [](\A r \in world : SegvPaused(r) => BlockedInPause(r))
  /\ [][\A r \in world : SegvPaused(r) => StaysPaused(r)]_vars

\* C21: with W_IGNORE_SEGV and W_SIG_PAUSE set, a process that faults writes
\* the diagnostic and blocks in pause(); from there on it makes no library
\* call, MPI_Finalize included, and does not exit.
C21_SegvPauseWritesAndBlocks ==
  /\ [](\A r \in world : SegvPaused(r) => HandlerRan(r, SIGSEGV))
  /\ SegvPauseBlocksForever

(***************************************************************************)
(* Failures of init: a job of two processes in which the init of rank 1    *)
(* meets a configuration that is missing, short or wrong, with and without *)
(* the exit hook and the redirect.                                         *)
(***************************************************************************)
\* The lines rank 1 may find: a good one, a directory that does not exist,
\* one in which no stream can be reopened, one in which stderr cannot, a
\* negative color, an environment string.
Lines1 ==
  {ColorLine(1), <<"1", " ">> \o Dir_x, <<"1", " ">> \o Dir_r,
   <<"1", " ">> \o Dir_e, <<"-", "1", " ">> \o Dir_b,
   <<"1", " ">> \o Dir_b \o <<" ", "F", "=", "b">>}

\* The configuration files: two lines, or the line of rank 0 alone.
ErrorFiles ==
  {<<ColorLine(0)>>} \cup {<<ColorLine(0), line>> : line \in Lines1}

ErrorFlags == {W_IGNORE_RETURN_CODE, W_REDIRECT_OUTERR}

InitErrors ==
  /\ world = {0, 1}
  /\ \E exists \in BOOLEAN, lines \in ErrorFiles :
       file = [exists |-> exists, lines |-> lines]
  /\ \E flags \in SUBSET ErrorFlags, named \in BOOLEAN :
       proc = [r \in {0, 1} |->
                 NewProcess(IF named THEN Environment(flags)
                            ELSE Unsetenv(Environment(flags), WRAPRUN_FILE))]
  /\ faults = 0
  /\ app = [barriers |-> 0]
  /\ call = NoCall
  /\ wrapper = NoWrapper

NextErrors ==
  \/ \E r \in world : AppInit(r)
  \/ \E r \in world : SplitReturn(r)
  \/ \E r \in world : AppFinalize(r)
  \/ \E r \in world : FinalizeReturn(r)
  \/ \E r \in world : AppReturn(r)
  \/ JobAbort

SpecErrors == InitErrors /\ [][NextErrors]_vars

(***************************************************************************)
(* C23: the failures of init                                               *)
(***************************************************************************)
\* The first failure the configuration holds for the init of rank r, "none"
\* if it holds none.
InitFailure(r) ==
  LET redirect == HasEnv(proc[r].environ, W_REDIRECT_OUTERR) IN
  IF ~HasEnv(proc[r].environ, WRAPRUN_FILE) THEN "unset"
  ELSE IF ~file.exists THEN "open"
  ELSE IF r >= Len(file.lines) THEN "short"
  ELSE IF ConfiguredColor(r) < 0 THEN "split"
  ELSE IF ConfiguredWorkDir(r) \notin ExistingDirs THEN "chdir"
  ELSE IF redirect /\ ConfiguredWorkDir(r) \in ReadOnlyDirs THEN "stdout"
  ELSE IF redirect /\ ConfiguredWorkDir(r) \in ErrLockedDirs THEN "stderr"
  ELSE "none"

\* The init of rank r has come to the step that fails.
ReachedFailure(r) ==
  /\ InitFailure(r) # "none"
  /\ IF InitFailure(r) \in {"unset", "open", "short", "split"}
     THEN CountIn(proc[r].log, {"GetRankParamsFromFile"}) > 0
     ELSE CountIn(proc[r].log, {"chdir"}) > 0

\* The diagnostic of a failure.
DiagnosticOf(failure) ==
  CASE failure = "unset" -> "WRAPRUN_FILE environment variable not set, exiting!"
    [] failure = "open" -> "Can't open file"
    [] failure = "short" -> "Error reading rank info"
    [] failure = "split" -> "Failed to split communicator"
    [] failure = "chdir" -> "Failed to change working directory"
    [] failure = "stdout" -> "Error setting stdout!"
    [] failure = "stderr" -> "Error setting stderr"

\* The calls of the init steps that come after the one that fails.
StepsAfter(failure) ==
  CASE failure \in {"unset", "open", "short"} ->
         {"signal SIGSEGV", "signal SIGABRT", "atexit", "PMPI_Comm_split",
          "chdir", "freopen", "SetEnvironmentVaribles", "setenv"}
    [] failure = "split" ->
         {"PMPI_Comm_split", "chdir", "freopen", "SetEnvironmentVaribles", "setenv"}
    [] failure = "chdir" -> {"freopen", "SetEnvironmentVaribles", "setenv"}
    [] failure \in {"stdout", "stderr"} -> {"SetEnvironmentVaribles", "setenv"}

\* The diagnostic of its failure is on the stderr of rank r.
DiagnosticWritten(r) ==
  \E i \in 1 .. Len(proc[r].stderrLog) :
    proc[r].stderrLog[i] = DiagnosticOf(InitFailure(r))

\* The init of rank r has not returned to the application and has run no
\* step after the one that failed.
InitStopped(r) ==
  /\ ~proc[r].inited /\ proc[r].initRets = <<>>
  /\ proc[r].pc \in {"in_finalize", "done"}
  /\ CountIn(proc[r].log, StepsAfter(InitFailure(r))) = 0

\* C23: when init meets an unset or unopenable configuration file, a file
\* with too few lines, a failing split, chdir or stream reopen, a diagnostic
\* is written to stderr, init does not return to the application and runs
\* none of its later steps.
C23_InitFailureIsFatal ==
  \A r \in world : ReachedFailure(r) => DiagnosticWritten(r) /\ InitStopped(r)

\* What split.c does: every such failure stops init, and each writes its
\* diagnostic but the failed reopen of stderr, whose diagnostic goes to the
\* stream the reopen has closed.
InitFailureStopsInit ==
  \A r \in world :
    ReachedFailure(r) =>
      /\ InitStopped(r)
      /\ DiagnosticWritten(r) <=> InitFailure(r) # "stderr"

(***************************************************************************)
(* C28: the exit status of a failed init                                   *)
(***************************************************************************)
\* The exit hook was registered before the failure of the init of rank r.
FailedUnderHook(r) ==
  /\ HasEnv(proc[r].environ, W_IGNORE_RETURN_CODE)
  /\ InitFailure(r) \in {"split", "chdir", "stdout", "stderr"}

\* C28: a process whose init has failed has ended, with an exit status other
\* than 0, whatever flags are set.
C28_InitFailureExitsNonzero ==
  \A r \in world :
    ReachedFailure(r) =>
      /\ proc[r].pc = "done"
      /\ proc[r].term.kind = "exit"
      /\ proc[r].term.code # EXIT_SUCCESS

\* What split.c does: without the exit hook the process ends with
\* EXIT_FAILURE; with it, exit(EXIT_FAILURE) runs the hook, which enters the
\* collective finalize and, if that returns, ends the process with 0.
InitFailureStatus ==
  \A r \in world :
    ReachedFailure(r) =>
      /\ proc[r].exitArg = EXIT_FAILURE
      /\ IF FailedUnderHook(r)
         THEN \/ proc[r].pc = "in_finalize" /\ proc[r].cont = "ExitHandler"
              \/ proc[r].pc = "done" /\ proc[r].term.kind = "aborted"
              \/ /\ proc[r].pc = "done"
                 /\ proc[r].term = [kind |-> "exit", code |-> EXIT_SUCCESS]
         ELSE /\ proc[r].pc = "done"
              /\ proc[r].term = [kind |-> "exit", code |-> EXIT_FAILURE]

(***************************************************************************)
(* C29: finalize, the exit hook and the handlers in one process            *)
(***************************************************************************)
\* C29: whatever the application, the exit hook and the signal handlers do,
\* and whenever the signals arrive, a process invokes the underlying finalize
\* at most once, frees the split communicator at most once and closes the
\* redirected streams at most once.
C29_FinalizeOnce ==
  \A r \in world :
    /\ CountIn(proc[r].log, RealFinalizes) <= 1
    /\ CountIn(proc[r].log, {"PMPI_Comm_free"}) <= 1
    /\ CountIn(proc[r].log, {"fclose"}) <= 1

\* What split.c guards: the free, by the handle it resets; the underlying
\* finalize, once it has returned.
FinalizeGuards ==
  \A r \in world :
    /\ CountIn(proc[r].log, {"PMPI_Comm_free"}) <= 1
    /\ Len(proc[r].finalizeReals) <= 1

(***************************************************************************)
(* intra_wrapper.c on its own: the launcher instances of one node, started *)
(* with well-formed and malformed command lines, whose forks may fail and  *)
(* whose children get PIDs above or below their own; the programs they     *)
(* exec end with any exit code or by a signal.                             *)
(***************************************************************************)
\* `intra.out`: no argument at all
NoArgsArgv == <<<<"i", "n", "t", "r", "a", ".", "o", "u", "t">>>>

\* `intra.out 2 c0 c1 :: /bin/A x ::`: two counts, one application
MissingAppArgv(c0, c1) == SubSeq(LauncherArgv(c0, c1), 1, 8)

\* `intra.out 2 c0 c1 :: /bin/A x :: /none ::`: a program that does not exist
NoProgramArgv(c0, c1) == [LauncherArgv(c0, c1) EXCEPT ![9] = App_missing]

\* The runs of a node: the number of instances started, the command line,
\* the rotation of the PIDs, where the children's PIDs lie, the instances
\* whose fork fails, and how the programs the children exec end.
Scenario(n, argv, k, where, fails, end) ==
  [n |-> n, argv |-> argv, k |-> k, childPids |-> where, forkFails |-> fails,
   end |-> end]

Scenarios ==
  {Scenario(MaxInstances, LauncherArgv(MaxInstances - 1, 1), MaxInstances - 1,
            "above", {}, [kind |-> "exit", code |-> 3]),
   Scenario(MaxInstances, LauncherArgv(1, MaxInstances - 1), 0,
            "below", {}, [kind |-> "exit", code |-> EXIT_SUCCESS]),
   Scenario(MaxLaunched, LauncherArgv(MaxLaunched - 1, 1), 0,
            "above", {0}, [kind |-> "signal", code |-> SIGSEGV]),
   Scenario(MaxLaunched, NoArgsArgv, 0,
            "above", {}, [kind |-> "exit", code |-> EXIT_SUCCESS]),
   Scenario(MaxLaunched, MissingAppArgv(MaxLaunched - 1, 1), 0,
            "above", {}, [kind |-> "exit", code |-> 255]),
   Scenario(MaxLaunched, NoProgramArgv(MaxLaunched - 1, 1), 0,
            "above", {}, [kind |-> "exit", code |-> EXIT_FAILURE])}

\* The command line is well formed and its counts add up to the instances
\* started, and no fork fails.
GoodRun ==
  /\ wrapper.forkFails = {}
  /\ \E c0 \in 0 .. Cardinality(world) :
       wrapper.argv = LauncherArgv(c0, Cardinality(world) - c0)

\* The launcher instances of one of the runs, none started yet.
InitRuns(runs) ==
  \E run \in runs :
    /\ world = 0 .. run.n - 1
    /\ file = [exists |-> FALSE, lines |-> <<>>]
    /\ wrapper = [kind |-> "intra", environ |-> LauncherEnvironment({}),
                  argv |-> run.argv, childPids |-> run.childPids,
                  forkFails |-> run.forkFails, end |-> run.end,
                  inst |-> [r \in 0 .. run.n - 1 |->
                              NewInstance(PidOf(r, run.k, run.n))]]
    /\ proc = [r \in 0 .. run.n - 1 |-> [NewProcess({}) EXCEPT !.pc = "unborn"]]
    /\ faults = 0
    /\ app = [barriers |-> 0]
    /\ call = NoCall

InitLaunch == InitRuns(Scenarios)

\* The program the child of instance r exec'ed ends.
ProgramEnd(r) ==
  /\ wrapper.inst[r].child.pc = "execed"
  /\ proc[r].pc = "start"
  /\ proc' = [proc EXCEPT ![r] =
                IF wrapper.end.kind = "exit" THEN ExitNow(proc[r], wrapper.end.code)
                ELSE KilledBy(proc[r], wrapper.end.code)]
  /\ UNCHANGED <<world, file, faults, app, call, wrapper>>

NextLaunch ==
  \/ \E r \in world : IntraStart(r)
  \/ \E r \in world : IntraPoll(r)
  \/ \E r \in world : IntraChild(r)
  \/ \E r \in world : ProgramEnd(r)
  \/ \E r \in world : IntraWait(r)

SpecLaunch == InitLaunch /\ [][NextLaunch]_vars

(***************************************************************************)
(* C24: the launcher instances of a node under every interleaving          *)
(***************************************************************************)
\* The PIDs the instance computed its position from.
PolledSet(r) ==
  {wrapper.inst[r].pids[i] : i \in 1 .. wrapper.inst[r].num_pids}

\* The indices of the "::" tokens of the command line, and the n-th of them.
SeparatorPositions ==
  {j \in 0 .. Argc(wrapper.argv) - 1 : Arg(wrapper.argv, j) = Separator}

NthSeparator(n) ==
  CHOOSE j \in SeparatorPositions :
    Cardinality({k \in SeparatorPositions : k < j}) = n - 1

\* The token that directly follows the (i+1)-th "::".
ProgramOf(i) == Arg(wrapper.argv, NthSeparator(i + 1) + 1)

\* The instances whose child has exec'ed application i.
ExecedApp(i) ==
  {r \in world : /\ wrapper.inst[r].child.pc = "execed"
                 /\ wrapper.inst[r].child.path = ProgramOf(i)}

\* Every instance has selected and its child has exec'ed.
AllExeced == \A r \in world : wrapper.inst[r].child.pc = "execed"

\* C24: under every interleaving of the launcher instances of a well-formed
\* run, the instances that have selected computed their position from the
\* same set of PIDs, each selected an application index in 0..N-1 which is
\* the one its position among the launchers gives (a sibling's fork or exec
\* does not change it), and once all have exec'ed exactly count_i of them
\* have exec'ed application i.
C24_ConsistentPartition ==
  GoodRun =>
    /\ \A r, q \in world :
         (HasSelected(r) /\ HasSelected(q)) => PolledSet(r) = PolledSet(q)
    /\ \A r \in world :
         HasSelected(r) =>
           /\ wrapper.inst[r].my_app_num \in 0 .. NumApps - 1
           /\ wrapper.inst[r].my_app_num = SmallestIndex(PositionOf(r))
    /\ AllExeced =>
         \A i \in 0 .. NumApps - 1 : Cardinality(ExecedApp(i)) = CountOf(i)


(***************************************************************************)
(* C25: the program and the argument vector the child execs                *)
(***************************************************************************)
\* The tokens from the one that follows the (i+1)-th "::" up to, and not
\* including, the next "::".
TokensOf(i) ==
  SubSeq(wrapper.argv, NthSeparator(i + 1) + 2, NthSeparator(i + 2))

\* The child of instance r has exec'ed for an application index i in 0..N-1
\* whose "::" separators the command line has.
ExecedSelected(r) ==
  /\ wrapper.inst[r].child.pc = "execed"
  /\ wrapper.inst[r].my_app_num \in 0 .. NumApps - 1
  /\ Cardinality(SeparatorPositions) >= wrapper.inst[r].my_app_num + 2

\* C25: the child of an instance that selected application i execs the
\* token that directly follows the (i+1)-th "::", with an argument vector of
\* exactly the tokens from that token up to, and not including, the next
\* "::"; it passes no "::" and no token of another application.
C25_ExecsOwnSlice ==
  \A r \in world :
    ExecedSelected(r) =>
      /\ wrapper.inst[r].child.path = ProgramOf(wrapper.inst[r].my_app_num)
      /\ wrapper.inst[r].child.argv = TokensOf(wrapper.inst[r].my_app_num)
      /\ \A k \in 1 .. Len(wrapper.inst[r].child.argv) :
           wrapper.inst[r].child.argv[k] # Separator

\* Counts 2,1: one child has exec'ed `/bin/A x`, another `/bin/B`.
C25_Witness ==
  \E r, q \in world :
    /\ ExecedSelected(r) /\ ExecedSelected(q)
    /\ wrapper.inst[r].my_app_num = 0 /\ wrapper.inst[q].my_app_num = 1
    /\ wrapper.inst[r].child.argv = <<App_A, Arg_x>>
    /\ wrapper.inst[q].child.argv = <<App_B>>


(***************************************************************************)
(* C26: the poll loop                                                      *)
(***************************************************************************)
\* The job launcher starts the instances and the poll loop runs once a second
\* in every instance that has not left it: while some instance can start or
\* can leave the loop, one eventually does.
PollScenarios ==
  {Scenario(MaxLaunched, LauncherArgv(MaxLaunched - 1, 1), MaxLaunched - 1,
            "above", {}, [kind |-> "exit", code |-> EXIT_SUCCESS]),
   Scenario(MaxLaunched, LauncherArgv(1, MaxLaunched - 1), 0,
            "below", {}, [kind |-> "exit", code |-> EXIT_FAILURE]),
   Scenario(MaxLaunched, LauncherArgv(MaxLaunched, 0), 0,
            "above", {MaxLaunched - 1}, [kind |-> "exit", code |-> EXIT_SUCCESS]),
   Scenario(MaxLaunched, NoProgramArgv(MaxLaunched - 1, 1), 0,
            "above", {}, [kind |-> "exit", code |-> EXIT_SUCCESS])}

InitPoll == InitRuns(PollScenarios)

SpecLaunchFair ==
  /\ InitPoll /\ [][NextLaunch]_vars
  /\ WF_vars(\E r \in world : IntraStart(r) \/ IntraPoll(r))

\* Every launcher instance of the node is listed by pidof.
AllVisible ==
  \A r \in world : wrapper.inst[r].pc \in {"poll", "wait"}

\* A step in which instance r forks.
Forks(r) == wrapper'.inst[r].forks > wrapper.inst[r].forks

\* C26: an instance forks only in a step whose poll showed at least
\* sum(count_i) PIDs, counted from zero; a poll that shows fewer leaves the
\* instance in the loop; and if all instances of the node become and stay
\* visible, every instance eventually leaves the loop and forks.
C26_PollsUntilAllVisible ==
  /\ [][\A r \in world :
          /\ Forks(r) =>
               /\ Cardinality(VisiblePids) >= wrapper.inst[r].instance_count
               /\ wrapper'.inst[r].num_pids = Cardinality(VisiblePids)
          /\ (/\ wrapper.inst[r].pc = "poll"
              /\ Cardinality(VisiblePids) < wrapper.inst[r].instance_count)
               => /\ wrapper'.inst[r].pc = "poll"
                  /\ ~Forks(r)]_vars
  /\ <>[]AllVisible => <>(\A r \in world : HasSelected(r))

\* All instances of a well-formed run have left the loop and forked, each
\* after a poll that showed at least sum(count_i) PIDs.
C26_Witness ==
  /\ GoodRun
  /\ AllVisible
  /\ \A r \in world :
       /\ HasSelected(r)
       /\ wrapper.inst[r].num_pids >= wrapper.inst[r].instance_count


(***************************************************************************)
(* C27: the errors of the launcher                                         *)
(***************************************************************************)
\* The command line has no count list of the length it announces.
MalformedShape(r) ==
  wrapper.inst[r].pc # "absent" /\ ReadsPastArgv(wrapper.argv)

\* execv has failed in the child of instance r.
ExecFailed(r) == wrapper.inst[r].child.pc = "exited"

\* fork has failed in instance r.
ForkFailed(r) == HasSelected(r) /\ wrapper.inst[r].child_pid = -1

\* The instance has ended with failure: by a signal, or with a nonzero exit
\* status.
EndedWithFailure(r) ==
  /\ wrapper.inst[r].pc = "done"
  /\ \/ wrapper.inst[r].term.kind = "signal"
     \/ wrapper.inst[r].term.kind = "exit" /\ wrapper.inst[r].term.code # 0

\* C27: after a malformed argument shape, a failed exec or a failed fork the
\* launcher instance does not wait for a child, and when it has ended it has
\* written a diagnostic and ended with failure.
C27_LauncherErrorsAreFatal ==
  \A r \in world :
    (MalformedShape(r) \/ ExecFailed(r) \/ ForkFailed(r)) =>
      /\ wrapper.inst[r].waits = 0
      /\ wrapper.inst[r].pc = "done" =>
           /\ EndedWithFailure(r)
           /\ wrapper.inst[r].child.out # <<>>

\* What intra_wrapper.c does: a count list that is not there ends the
\* instance by SIGSEGV before it polls; after a failed execv the child
\* writes "Failed execv" and exits with 1, and the instance waits for it and
\* returns its wait status, 256; after a failed fork the instance calls
\* waitpid and returns a status nobody wrote.
LauncherErrorOutcomes ==
  \A r \in world :
    /\ MalformedShape(r) =>
         /\ wrapper.inst[r].pc = "done"
         /\ wrapper.inst[r].term = [kind |-> "signal", code |-> SIGSEGV]
         /\ wrapper.inst[r].forks = 0
    /\ ExecFailed(r) =>
         /\ wrapper.inst[r].child.out = <<"Failed execv">>
         /\ proc[r].term = [kind |-> "exit", code |-> 1]
         /\ wrapper.inst[r].pc = "done" =>
              /\ wrapper.inst[r].waits = 1
              /\ wrapper.inst[r].ret = 256
              /\ wrapper.inst[r].term = [kind |-> "exit", code |-> 0]
    /\ (ForkFailed(r) /\ wrapper.inst[r].pc = "done") =>
         /\ wrapper.inst[r].waits = 1
         /\ wrapper.inst[r].ret \in StackInts
         /\ wrapper.inst[r].child.out = <<>>


(***************************************************************************)
(* C30: the exit status the parent of the launcher observes                *)
(***************************************************************************)
\* The instance has returned from main after waitpid gave it the status of
\* its child.
ReturnedChildStatus(r) ==
  /\ wrapper.inst[r].pc = "done"
  /\ wrapper.inst[r].waits = 1
  /\ wrapper.inst[r].child_pid # -1

\* C30: when the child of a launcher instance has exited with a code in
\* 1..255, the exit status of the instance, as its parent observes it, is
\* nonzero.
C30_NonzeroExitIsObserved ==
  \A r \in world :
    (/\ ReturnedChildStatus(r)
     /\ proc[r].term.kind = "exit"
     /\ proc[r].term.code \in 1 .. 255)
      => wrapper.inst[r].term.code # 0

\* What the parent observes: main returns the wait status, k * 256 for a
\* child that exited with k, whose low 8 bits are 0; for a child killed by a
\* signal it is the number of the signal.
ObservedStatus ==
  \A r \in world :
    ReturnedChildStatus(r) =>
      /\ proc[r].term.kind = "exit" =>
           /\ wrapper.inst[r].ret = proc[r].term.code * 256
           /\ wrapper.inst[r].term = [kind |-> "exit", code |-> 0]
      /\ proc[r].term.kind = "signal" =>
           wrapper.inst[r].term = [kind |-> "exit", code |-> proc[r].term.code]

====
